---- MODULE Spec2Model ----
(***************************************************************************)
(* Model of the skyline orchestration core: the process supervisor        *)
(* (internal/supervisor), the two declarative reconcilers (internal/proxy *)
(* and internal/backup) and the deployment pipeline (package deploy).     *)
(*                                                                         *)
(* Three specifications share the variables:                              *)
(*   Spec     the supervisor under concurrent clients, waiters and sweeps *)
(*   SpecRec  the proxy and backup reconcilers                            *)
(*   SpecPipe the deployment pipeline                                     *)
(***************************************************************************)
EXTENDS Integers, Sequences, FiniteSets, TLC

\* ------------------------------------------------------------------------
\* Bounds of the model
\* ------------------------------------------------------------------------
\* number of ProcessInfo objects that exist at the same time
MaxProcs == 2
\* number of RestartApp calls of clients and sweep goroutines in flight
MaxTasks == 1
\* largest configured cfg.MaxRestarts explored
MaxRestartsCfg == 1

AppIds == {"a1", "a2"}
Paths == {"bin1"}
TwoPaths == {"bin1", "bin2"}

Rids == 1..MaxProcs
\* owners of a RestartApp call: the waiter of process r (owner r), or one
\* of the goroutines running a client's or the sweep's RestartApp
Spare == (MaxProcs + 1)..(MaxProcs + MaxTasks)
Owners == Rids \cup Spare

VARIABLES
    \* ---- supervisor (internal/supervisor/supervisor.go)
    procs,          \* s.procs: app id -> handle of its ProcessInfo, 0 if absent
    recs,           \* the ProcessInfo objects, by handle
    alive,          \* handles whose OS process has not exited
    task,           \* per owner: position of its waiter / RestartApp call
    ctxDone,        \* s.ctx has been cancelled
    cfgMaxRestarts, \* s.cfg.MaxRestarts
    act,            \* the StartApp/StopApp/Stop call completed by the last step
                    \* and its result; NoAct after any other step
    pub,            \* the events handed to eventBus.Publish by the last step
    autoRestarts,   \* per app id: waiter-initiated starts since the last
                    \* start or restart requested by a client (saturating)
    \* ---- reconcilers (internal/proxy/caddy.go, internal/backup/litestream.go)
    mgr,            \* the manager a behaviour of SpecRec exercises
    routes,         \* c.routes: app id -> RouteConfig
    caddyFile,      \* the routes in the file at cfg.ConfigPath, in file order
    caddyCmd,       \* c.cmd: "nil" or "proc"
    caddyUp,        \* the proxy process is running
    caddyLive,      \* the routes the proxy process has adopted
    dbs,            \* b.dbs: app id -> database path
    lsFile,         \* the dbs entries in the file at cfg.LitestreamConfig
    lsCmd,          \* b.cmd: "nil", "noproc" (Start failed) or "proc"
    lsUp,           \* the replication daemon is running
    lsLive,         \* the entries the daemon read when it was started
    lsStarts,       \* daemon starts performed by the last step
    recAct,         \* the Add/Remove call completed by the last step
    want,           \* app id -> arguments of its latest Add, dropped by Remove
    recMu,          \* c.mu / b.mu: the caller holding it, 0 if free
    rcall,          \* per caller: its Add/Remove call in progress
    serial,         \* the Add/Remove calls in the order they took the lock
    \* ---- pipeline (package deploy: Pipeline)
    appsTbl,        \* table apps of the record store: app id -> status
    deps,           \* table deployments: deployment id -> durable row
    inv,            \* the DeployApp invocations, by deployment id
    hook,           \* the ProcessWebhook call completed by the last step
    und,            \* the UndeployApp invocation
    repoURL,        \* the argument of a parseRepoName call
    parsed,         \* what the call returned
    fetcher,        \* the GitHubFetcher: g.mu, the source directories, its calls
    dcall,          \* the Deployer.Deploy call: its sub-steps so far, its result
    \* ---- event bus (package events: EventBus)
    subscribers,    \* b.subscribers: event type -> handlers, in subscription order
    mu,             \* b.mu: the writer that has announced itself, the readers
    call,           \* per caller: its Subscribe/Publish/Clear call in progress
    gor,            \* the goroutines started by `go handler(event)`, in order
    used,           \* per operation: calls begun so far
    \* ---- supervisor, its lock alone (s.mu)
    smu,            \* s.mu: the writer that has announced itself, the readers
    thr             \* per goroutine: the operation it runs and where it is

supVars == <<procs, recs, alive, task, ctxDone, cfgMaxRestarts,
             act, pub, autoRestarts>>

recVars == <<mgr, routes, caddyFile, caddyCmd, caddyUp, caddyLive,
             dbs, lsFile, lsCmd, lsUp, lsLive, lsStarts, recAct, want,
             recMu, rcall, serial>>

lockVars == <<recMu, rcall, serial>>

fetchVars == <<repoURL, parsed, fetcher>>

pipeVars == <<appsTbl, deps, inv, hook, und, fetchVars, dcall>>

busVars == <<subscribers, mu, call, gor, used>>

muVars == <<smu, thr>>

vars == <<supVars, recVars, pipeVars, busVars, muVars>>

\* ------------------------------------------------------------------------
\* Supervisor: data
\* ------------------------------------------------------------------------
NoRec == [AppID |-> "-", Status |-> "none", Restarts |-> 0, Path |-> "-"]
NoTask == [pc |-> "none", id |-> "-", path |-> "-", by |-> "-"]
NoAct == [op |-> "-", id |-> "-", by |-> "-", ret |-> "-"]

Event(type, id) == [Type |-> type, AppID |-> id]

\* the record s.procs holds for id: exists
Managed(id) == procs[id] # 0

\* StartApp's conflict test
AlreadyRunning_NoCheck(id) == FALSE
AlreadyRunning(id) == Managed(id) /\ recs[procs[id]].Status = "running"

\* the ProcessInfo StartApp stores for a new process
NewProcessInfo(id, path) ==
    [AppID |-> id, Status |-> "running", Restarts |-> 0, Path |-> path]

\* environments are lists of <<name, value>>; the supervisor's own
\* environment, which it never changes, and the lists clients pass
MaxEnvLen == 2
Environ == << <<"HOME", "h">>, <<"PORT", "1">> >>
EnvEntries == {<<"PORT", "2">>, <<"KEY", "k">>, <<"KEY", "l">>}
EnvArgs == UNION {[1..n -> EnvEntries] : n \in 0..MaxEnvLen}

\* cmd.Env as StartApp sets it
CmdEnv(env) == Environ \o env

\* cmd.Env after RestartApp, which passes the old cmd.Env to StartApp
RestartEnv(env) == CmdEnv(CmdEnv(env))

\* the environment the started process sees: of entries with the same name
\* the last one
Seen(list) ==
    {list[i] : i \in {j \in DOMAIN list :
                        \A k \in DOMAIN list : k > j => list[k][1] # list[j][1]}}

\* GetStatus(id): the status, or the 'not managed' error
GetStatus(id) == IF Managed(id) THEN recs[procs[id]].Status ELSE "not_managed"

\* ListApps()
ListApps == {id \in AppIds : Managed(id)}

WaiterIgnoresExit_CtxOnly(r) == ctxDone

\* the waiter's test for an exit it must not treat as a crash
WaiterIgnoresExit(r) == ctxDone \/ recs[r].Status = "stopped"

\* the waiter's restart decision
ShouldRestart_Always(restarts) == TRUE
ShouldRestart(restarts) == restarts < cfgMaxRestarts

\* the sweep's liveness probe: Signal(0) fails once the process is gone
ProbeDead(r) == r \notin alive

\* the waiter of process r leaves cmd.Wait() when the process is gone
WakeWaiters(t, gone) ==
    [o \in Owners |->
        IF o \in gone /\ t[o].pc = "wait" THEN [t[o] EXCEPT !.pc = "observe"]
        ELSE t[o]]

\* A ProcessInfo that the map no longer holds and whose waiter has returned
\* is unreachable; its handle is reused for the next ProcessInfo.
Garbage(p, rc, al, t) ==
    {r \in Rids : /\ rc[r].Status # "none"
                  /\ t[r].pc = "done"
                  /\ r \notin al
                  /\ \A id \in AppIds : p[id] # r}

Collect(res) ==
    LET g == Garbage(res.procs, res.recs, res.alive, res.task) IN
    [res EXCEPT !.recs = [r \in Rids |-> IF r \in g THEN NoRec ELSE res.recs[r]],
                !.task = [o \in Owners |-> IF o \in g THEN NoTask
                                           ELSE res.task[o]]]

FreeRids == {r \in Rids : recs[r].Status = "none"}
NewRid == CHOOSE r \in FreeRids : \A r2 \in FreeRids : r <= r2

\* the state as a record, for the functions below
Here == [ret |-> "-", procs |-> procs, recs |-> recs, alive |-> alive,
         task |-> task, pub |-> <<>>]

\* ------------------------------------------------------------------------
\* Supervisor: StartApp and stopProcess as functions of the current state
\* ------------------------------------------------------------------------
\* StartApp(id, path, env) where spawnOk says whether opening the log file
\* and cmd.Start() succeed; exec.CommandContext refuses a cancelled context
StartAppResult(id, path, spawnOk) ==
    IF AlreadyRunning(id) THEN [Here EXCEPT !.ret = "conflict"]
    ELSE IF ~spawnOk \/ ctxDone THEN [Here EXCEPT !.ret = "start_failed"]
    ELSE [ret   |-> "ok",
          procs |-> [procs EXCEPT ![id] = NewRid],
          recs  |-> [recs EXCEPT ![NewRid] = NewProcessInfo(id, path)],
          alive |-> alive \cup {NewRid},
          task  |-> [task EXCEPT ![NewRid] =
                        [pc |-> "wait", id |-> id, path |-> "-",
                         by |-> "waiter"]],
          pub   |-> <<Event("app_started", id)>>]

\* outcomes of stopProcess on a live process:
\*   "exited"    SIGTERM ends it and stopProcess' own Wait reaps it
\*   "lost_wait" SIGTERM ends it but the waiter's cmd.Wait reaps it first, so
\*               stopProcess' Wait fails
\*   "killed"    it ignores SIGTERM; after 5 s it is force-killed
StopOutcomes == {"exited", "lost_wait", "killed"}

\* the outcome is an input only when stopProcess signals a live process
OutcomeApplies(r, outcome) ==
    \/ r # 0 /\ recs[r].Status = "running" /\ r \in alive
    \/ outcome = "exited"

StopProcessResult_NoKill(r, outcome) ==
    IF recs[r].Status # "running" THEN [Here EXCEPT !.ret = "ok"]
    ELSE IF r \notin alive THEN [Here EXCEPT !.ret = "kill_failed"]
    ELSE IF outcome = "lost_wait"
         THEN [Here EXCEPT !.ret = "wait_failed",
                           !.alive = alive \ {r},
                           !.task = WakeWaiters(task, {r})]
    ELSE IF outcome = "killed"
         THEN [Here EXCEPT !.ret = "ok",
                   !.recs = [recs EXCEPT ![r].Status = "stopped"],
                   !.pub = <<Event("app_stopped", recs[r].AppID)>>]
    ELSE [Here EXCEPT !.ret = "ok",
              !.recs = [recs EXCEPT ![r].Status = "stopped"],
              !.alive = alive \ {r},
              !.task = WakeWaiters(task, {r}),
              !.pub = <<Event("app_stopped", recs[r].AppID)>>]

StopProcessResult(r, outcome) ==
    IF recs[r].Status # "running" THEN [Here EXCEPT !.ret = "ok"]
    \* Signal and the fallback Kill both fail on a finished process
    ELSE IF r \notin alive THEN [Here EXCEPT !.ret = "kill_failed"]
    ELSE IF outcome = "lost_wait"
         THEN [Here EXCEPT !.ret = "wait_failed",
                           !.alive = alive \ {r},
                           !.task = WakeWaiters(task, {r})]
    ELSE [Here EXCEPT !.ret = "ok",
              !.recs = [recs EXCEPT ![r].Status = "stopped"],
              !.alive = alive \ {r},
              !.task = WakeWaiters(task, {r}),
              !.pub = <<Event("app_stopped", recs[r].AppID)>>]

StopAppResult_Forgets(id, outcome) ==
    IF ~Managed(id) THEN [Here EXCEPT !.ret = "not_managed"]
    ELSE [StopProcessResult(procs[id], outcome) EXCEPT !.procs = [procs EXCEPT ![id] = 0]]

\* StopApp(id): 'not managed' error, or stopProcess on the id's record
StopAppResult(id, outcome) ==
    IF ~Managed(id) THEN [Here EXCEPT !.ret = "not_managed"]
    ELSE StopProcessResult(procs[id], outcome)

\* a RestartApp call returns: a waiter ends, a goroutine slot becomes free
TaskDone(t, o) ==
    [t EXCEPT ![o] = IF o \in Rids THEN [NoTask EXCEPT !.pc = "done"]
                     ELSE NoTask]

\* saturating increment of the ghost counter
Bump(n) == IF n <= MaxRestartsCfg THEN n + 1 ELSE n

\* ------------------------------------------------------------------------
\* Supervisor: initial state
\* ------------------------------------------------------------------------
SupInit ==
    /\ procs = [id \in AppIds |-> 0]
    /\ recs = [r \in Rids |-> NoRec]
    /\ alive = {}
    /\ task = [o \in Owners |-> NoTask]
    /\ ctxDone = FALSE
    /\ cfgMaxRestarts \in 0..MaxRestartsCfg
    /\ act = NoAct
    /\ pub = <<>>
    /\ autoRestarts = [id \in AppIds |-> 0]

\* the new state of the supervisor's objects, unreachable ones dropped
Becomes(res) ==
    LET c == Collect(res) IN
    /\ procs' = c.procs
    /\ recs' = c.recs
    /\ alive' = c.alive
    /\ task' = c.task
    /\ pub' = c.pub

\* ------------------------------------------------------------------------
\* Supervisor: operations called by clients
\* ------------------------------------------------------------------------
\* a client calls StartApp(id, path, env)
StartApp(id, path, spawnOk) ==
    LET res == StartAppResult(id, path, spawnOk) IN
    /\ FreeRids # {}
    /\ AlreadyRunning(id) => spawnOk
    /\ Becomes(res)
    /\ act' = [op |-> "StartApp", id |-> id, by |-> "client", ret |-> res.ret]
    /\ autoRestarts' = IF res.ret = "ok"
                       THEN [autoRestarts EXCEPT ![id] = 0] ELSE autoRestarts
    /\ UNCHANGED <<recVars, pipeVars, muVars, busVars, ctxDone, cfgMaxRestarts>>

\* a client calls StopApp(id)
StopApp(id, outcome) ==
    LET res == StopAppResult(id, outcome) IN
    /\ OutcomeApplies(procs[id], outcome)
    /\ Becomes(res)
    /\ act' = [op |-> "StopApp", id |-> id, by |-> "client", ret |-> res.ret]
    /\ UNCHANGED <<recVars, pipeVars, muVars, busVars, ctxDone, cfgMaxRestarts, autoRestarts>>

\* a client calls RestartApp(id); the call runs in the steps RestartRead,
\* RestartStop and RestartStart below
RestartApp(id) ==
    \E o \in Spare :
        /\ task[o].pc = "none"
        /\ \A o2 \in Spare : o2 < o => task[o2].pc # "none"
        /\ task' = [task EXCEPT ![o] =
                       [pc |-> "r_read", id |-> id, path |-> "-",
                        by |-> "client"]]
        /\ act' = NoAct
        /\ pub' = <<>>
        /\ autoRestarts' = [autoRestarts EXCEPT ![id] = 0]
        /\ UNCHANGED <<recVars, pipeVars, muVars, busVars, procs, recs, alive, ctxDone, cfgMaxRestarts>>

RestartRead_FirstRecord(o) ==
    LET id == task[o].id IN
    /\ task[o].pc = "r_read"
    /\ IF ~Managed(id)
       THEN /\ Becomes([Here EXCEPT !.task = TaskDone(task, o)])
            /\ act' = [op |-> "RestartApp", id |-> id, by |-> task[o].by,
                       ret |-> "not_managed"]
       ELSE /\ Becomes([Here EXCEPT !.task =
                          [task EXCEPT ![o].pc = "r_stop",
                                       ![o].path = recs[1].Path]])
            /\ act' = NoAct
    /\ UNCHANGED <<recVars, pipeVars, muVars, busVars, ctxDone, cfgMaxRestarts, autoRestarts>>

\* RestartApp, first step: look the record up under the read lock and take
\* the executable path from it
RestartRead(o) ==
    LET id == task[o].id IN
    /\ task[o].pc = "r_read"
    /\ IF ~Managed(id)
       THEN /\ Becomes([Here EXCEPT !.task = TaskDone(task, o)])
            /\ act' = [op |-> "RestartApp", id |-> id, by |-> task[o].by,
                       ret |-> "not_managed"]
       ELSE /\ Becomes([Here EXCEPT !.task =
                          [task EXCEPT ![o].pc = "r_stop",
                                       ![o].path = recs[procs[id]].Path]])
            /\ act' = NoAct
    /\ UNCHANGED <<recVars, pipeVars, muVars, busVars, ctxDone, cfgMaxRestarts, autoRestarts>>

\* RestartApp, second step: StopApp(id); an error ends the call
RestartStop(o, outcome) ==
    LET id == task[o].id
        res == StopAppResult(id, outcome)
    IN
    /\ task[o].pc = "r_stop"
    /\ OutcomeApplies(procs[id], outcome)
    /\ Becomes([res EXCEPT !.task =
                  IF res.ret = "ok" THEN [res.task EXCEPT ![o].pc = "r_start"]
                  ELSE TaskDone(res.task, o)])
    /\ act' = [op |-> "StopApp", id |-> id, by |-> task[o].by, ret |-> res.ret]
    /\ UNCHANGED <<recVars, pipeVars, muVars, busVars, ctxDone, cfgMaxRestarts, autoRestarts>>

\* RestartApp, last step: after the settling delay, StartApp(id, path, env)
RestartStart(o, spawnOk) ==
    LET id == task[o].id
        res == StartAppResult(id, task[o].path, spawnOk)
    IN
    /\ task[o].pc = "r_start"
    /\ FreeRids # {}
    /\ AlreadyRunning(id) => spawnOk
    /\ Becomes([res EXCEPT !.task = TaskDone(res.task, o)])
    /\ act' = [op |-> "StartApp", id |-> id, by |-> task[o].by, ret |-> res.ret]
    /\ autoRestarts' =
          IF res.ret = "ok" /\ task[o].by = "waiter"
          THEN [autoRestarts EXCEPT ![id] = Bump(@)] ELSE autoRestarts
    /\ UNCHANGED <<recVars, pipeVars, muVars, busVars, ctxDone, cfgMaxRestarts>>

\* ------------------------------------------------------------------------
\* Supervisor: the managed process and its waiter (waitForProcess)
\* ------------------------------------------------------------------------
\* the process exits on its own; cmd.Wait() returns in its waiter
ProcExit(r) ==
    /\ r \in alive
    /\ Becomes([Here EXCEPT !.alive = alive \ {r},
                            !.task = WakeWaiters(task, {r})])
    /\ act' = NoAct
    /\ UNCHANGED <<recVars, pipeVars, muVars, busVars, ctxDone, cfgMaxRestarts, autoRestarts>>

\* under the lock: return on a cancelled context or a stopped record,
\* otherwise mark the record crashed; then publish 'app failed', read the
\* restart counter and decide whether to restart
WaiterObserve(r) ==
    /\ task[r].pc = "observe"
    /\ IF WaiterIgnoresExit(r)
       THEN Becomes([Here EXCEPT !.task = [task EXCEPT ![r].pc = "done"]])
       ELSE Becomes([Here EXCEPT
                !.recs = [recs EXCEPT ![r].Status = "crashed"],
                !.pub = <<Event("app_failed", recs[r].AppID)>>,
                !.task = IF ShouldRestart(recs[r].Restarts)
                         THEN [task EXCEPT ![r].pc = "delay"]
                         ELSE [task EXCEPT ![r].pc = "done"]])
    /\ act' = NoAct
    /\ UNCHANGED <<recVars, pipeVars, muVars, busVars, ctxDone, cfgMaxRestarts, autoRestarts>>

\* after the restart delay: increment the counter and call RestartApp
WaiterIncr(r) ==
    /\ task[r].pc = "delay"
    /\ Becomes([Here EXCEPT !.recs = [recs EXCEPT ![r].Restarts = @ + 1],
                            !.task = [task EXCEPT ![r].pc = "r_read"]])
    /\ act' = NoAct
    /\ UNCHANGED <<recVars, pipeVars, muVars, busVars, ctxDone, cfgMaxRestarts, autoRestarts>>

\* ------------------------------------------------------------------------
\* Supervisor: periodic sweep, shutdown
\* ------------------------------------------------------------------------
\* the ids checkProcesses finds running but dead
SweepDead == {id \in AppIds : AlreadyRunning(id) /\ ProbeDead(procs[id])}

FreeSlots == {o \in Spare : task[o].pc = "none"}

\* checkProcesses: one RestartApp goroutine per running record found dead
SweepCheck ==
    /\ ~ctxDone
    /\ SweepDead # {}
    /\ Cardinality(SweepDead) <= Cardinality(FreeSlots)
    /\ LET slot == CHOOSE f \in [SweepDead -> FreeSlots] :
                       \A x, y \in SweepDead : x # y => f[x] # f[y]
       IN task' = [o \in Owners |->
                     IF \E id \in SweepDead : slot[id] = o
                     THEN [pc |-> "r_read",
                           id |-> CHOOSE id \in SweepDead : slot[id] = o,
                           path |-> "-", by |-> "sweep"]
                     ELSE task[o]]
    /\ act' = NoAct
    /\ pub' = <<>>
    /\ UNCHANGED <<recVars, pipeVars, muVars, busVars, procs, recs, alive, ctxDone, cfgMaxRestarts, autoRestarts>>

\* Supervisor.Stop: stopProcess on every record of the map, under the lock
SupervisorStop(outcome) ==
    LET held == {procs[id] : id \in ListApps}
        res(r) == StopProcessResult(r, outcome[recs[r].AppID])
        gone == {r \in held : r \in alive /\ r \notin res(r).alive}
        said == {r \in held : res(r).pub # <<>>}
    IN
    /\ held # {}
    /\ \A id \in AppIds : OutcomeApplies(procs[id], outcome[id])
    /\ \E ord \in [1..Cardinality(said) -> said] :
          /\ \A i, j \in DOMAIN ord : i # j => ord[i] # ord[j]
          /\ Becomes([Here EXCEPT
                !.recs = [r \in Rids |->
                            IF r \in held THEN res(r).recs[r] ELSE recs[r]],
                !.alive = alive \ gone,
                !.task = WakeWaiters(task, gone),
                !.pub = [i \in DOMAIN ord |-> res(ord[i]).pub[1]]])
    /\ act' = [op |-> "SupervisorStop", id |-> "-", by |-> "client",
               ret |-> "-"]
    /\ UNCHANGED <<recVars, pipeVars, muVars, busVars, ctxDone, cfgMaxRestarts, autoRestarts>>

\* the supervisor's context is cancelled; exec.CommandContext kills every
\* process started under it
Cancel ==
    /\ ~ctxDone
    /\ ctxDone' = TRUE
    /\ Becomes([Here EXCEPT !.alive = {}, !.task = WakeWaiters(task, alive)])
    /\ act' = NoAct
    /\ UNCHANGED <<recVars, pipeVars, muVars, busVars, cfgMaxRestarts, autoRestarts>>

\* the supervisor while it runs: everything but StartApp by a client,
\* Supervisor.Stop and the cancellation of the context
SupRunning ==
    \/ \E id \in AppIds, oc \in StopOutcomes : StopApp(id, oc)
    \/ \E id \in AppIds : RestartApp(id)
    \/ \E o \in Owners : RestartRead(o)
    \/ \E o \in Owners, oc \in StopOutcomes : RestartStop(o, oc)
    \/ \E o \in Owners, ok \in BOOLEAN : RestartStart(o, ok)
    \/ \E r \in Rids : ProcExit(r)
    \/ \E r \in Rids : WaiterObserve(r)
    \/ \E r \in Rids : WaiterIncr(r)
    \/ SweepCheck

SupNext ==
    \/ \E id \in AppIds, path \in Paths, ok \in BOOLEAN : StartApp(id, path, ok)
    \/ SupRunning
    \/ \E oc \in [AppIds -> StopOutcomes] : SupervisorStop(oc)
    \/ Cancel

\* the running supervisor with clients that start applications from
\* different executables
PathsNext ==
    \/ \E id \in AppIds, path \in TwoPaths, ok \in BOOLEAN : StartApp(id, path, ok)
    \/ SupRunning

\* ------------------------------------------------------------------------
\* Supervisor: the goroutines and s.mu alone
\* ------------------------------------------------------------------------
NumClients == 1
NumPool == 1

\* goroutines: those of clients, the one of monitorProcesses, and the ones
\* started by StartApp (waitForProcess) and by checkProcesses (RestartApp)
Clients == 1..NumClients
SweepThread == NumClients + 1
Pool == (NumClients + 2)..(NumClients + 1 + NumPool)
Threads == 1..(NumClients + 1 + NumPool)

ClientOps == {"StartApp", "StopApp", "RestartApp", "GetStatus", "ListApps", "Stop"}

\* the sections of s.mu an operation goes through, in order: "W" between
\* Lock and Unlock, "R" between RLock and RUnlock
Sections(op) ==
    CASE op = "StartApp" -> <<"W">>
      [] op = "StopApp" -> <<"W">>
      [] op = "RestartApp" -> <<"R", "W", "W">>
      [] op = "GetStatus" -> <<"R">>
      [] op = "ListApps" -> <<"R">>
      [] op = "Stop" -> <<"W">>
      [] op = "waitForProcess" -> <<"W", "W", "W", "R", "W", "W">>
      [] op = "checkProcesses" -> <<"R">>

\* the operation can return after its k-th section: always after the last;
\* RestartApp when the id is unknown or StopApp failed; waitForProcess when
\* the exit is not a crash, when the restart budget is used up, and where
\* its RestartApp can
MayEnd(op, k) ==
    \/ k = Len(Sections(op))
    \/ op = "RestartApp" /\ k \in {1, 2}
    \/ op = "waitForProcess" /\ k \in {1, 2, 4, 5}

\* the operation goes on after its k-th section
MayGoOn(op, k) == k < Len(Sections(op))

\* the k-th section is the body of a StartApp, which can start a waiter
StartsWaiter(op, k) ==
    \/ op = "StartApp"
    \/ op = "RestartApp" /\ k = 3
    \/ op = "waitForProcess" /\ k = 6

\* the k-th section is the scan of checkProcesses, which can start RestartApp
\* goroutines
StartsRestart(op, k) == op = "checkProcesses"

Unlocks_NotOnEarlyReturn(op, k, ends) == ~(op = "waitForProcess" /\ k = 1 /\ ends)

\* the section ends with Unlock or RUnlock, deferred or explicit, on every
\* path
Unlocks(op, k, ends) == TRUE

NoThread == [op |-> "-", k |-> 0, ph |-> "idle"]
NoSmu == [w |-> 0, r |-> {}]

MuIdle == smu = NoSmu /\ thr = [t \in Threads |-> NoThread]

FreePool == {t \in Pool : thr[t].ph = "idle"}

muFrame == <<supVars, recVars, pipeVars, busVars>>

\* a client calls op
ClientCalls(t, op) ==
    /\ t \in Clients
    /\ thr[t].ph = "idle"
    /\ thr' = [thr EXCEPT ![t] = [op |-> op, k |-> 1, ph |-> "want"]]
    /\ UNCHANGED <<muFrame, smu>>

\* the ticker of monitorProcesses fires
Tick ==
    /\ thr[SweepThread].ph = "idle"
    /\ thr' = [thr EXCEPT ![SweepThread] = [op |-> "checkProcesses", k |-> 1, ph |-> "want"]]
    /\ UNCHANGED <<muFrame, smu>>

\* the process a waiter waits for exits: cmd.Wait() returns
WaitReturns(t) ==
    /\ thr[t].ph = "wait"
    /\ thr' = [thr EXCEPT ![t] = [@ EXCEPT !.k = 1, !.ph = "want"]]
    /\ UNCHANGED <<muFrame, smu>>

\* s.mu.RLock(): granted unless a writer holds or awaits the lock; s.mu.Lock(),
\* first half: the writer excludes other writers and new readers
Acquire(t) ==
    /\ thr[t].ph = "want"
    /\ smu.w = 0
    /\ IF Sections(thr[t].op)[thr[t].k] = "R"
       THEN /\ smu' = [smu EXCEPT !.r = @ \cup {t}]
            /\ thr' = [thr EXCEPT ![t].ph = "held"]
       ELSE /\ smu' = [smu EXCEPT !.w = t]
            /\ thr' = [thr EXCEPT ![t].ph = "drain"]
    /\ UNCHANGED muFrame

\* s.mu.Lock(), second half: the readers have left
Drained(t) ==
    /\ thr[t].ph = "drain"
    /\ smu.r = {}
    /\ thr' = [thr EXCEPT ![t].ph = "held"]
    /\ UNCHANGED <<muFrame, smu>>

\* the section's body and its Unlock or RUnlock; the operation then returns
\* (ends) or goes on to its next section; goroutines the body starts take
\* the pool slots in starts
Release(t, ends, starts) ==
    LET op == thr[t].op
        k == thr[t].k
    IN
    /\ thr[t].ph = "held"
    /\ IF ends THEN MayEnd(op, k) ELSE MayGoOn(op, k)
    /\ starts \subseteq FreePool
    /\ starts # {} => StartsWaiter(op, k) \/ StartsRestart(op, k)
    /\ StartsWaiter(op, k) => Cardinality(starts) <= 1
    /\ smu' = IF ~Unlocks(op, k, ends) THEN smu
              ELSE IF Sections(op)[k] = "R" THEN [smu EXCEPT !.r = @ \ {t}]
              ELSE [smu EXCEPT !.w = 0]
    /\ thr' = [x \in Threads |->
                 IF x = t THEN (IF ends THEN NoThread
                                ELSE [thr[t] EXCEPT !.k = k + 1, !.ph = "want"])
                 ELSE IF x \in starts
                      THEN (IF StartsRestart(op, k)
                            THEN [op |-> "RestartApp", k |-> 1, ph |-> "want"]
                            ELSE [op |-> "waitForProcess", k |-> 0, ph |-> "wait"])
                 ELSE thr[x]]
    /\ UNCHANGED muFrame

MuNext ==
    \/ \E t \in Clients, op \in ClientOps : ClientCalls(t, op)
    \/ Tick
    \/ \E t \in Pool : WaitReturns(t)
    \/ \E t \in Threads : Acquire(t)
    \/ \E t \in Threads : Drained(t)
    \/ \E t \in Threads, ends \in BOOLEAN, starts \in SUBSET Pool : Release(t, ends, starts)

\* ------------------------------------------------------------------------
\* Reconcilers: CaddyManager (internal/proxy/caddy.go) and BackupManager
\* (internal/backup/litestream.go)
\* ------------------------------------------------------------------------
DefaultPort == 8080
\* the (domain, port) pairs AddRoute is called with
RouteArgs == {<<"a.example.com", DefaultPort>>, <<"b.example.com", DefaultPort + 1>>}
BackupDestination == <<"backups">>
DbPaths == {<<"data", "app-data", id, "db", "app.db">> : id \in AppIds}
Managers == {"proxy", "backup"}

\* filepath.Dir, filepath.Base and filepath.Join on paths held as segments
Dir(p) == SubSeq(p, 1, Len(p) - 1)
Base(p) == p[Len(p)]
Join(p, name) == Append(p, name)

\* fmt.Sprintf("http://localhost:%d", port)
TargetURL(port) == <<"http://localhost:", port>>

RouteConfig(domain, port) == [Domain |-> domain, TargetURL |-> TargetURL(port)]

\* m[id] = v and delete(m, id) on a Go map
PutEntry(m, id, v) ==
    [x \in (DOMAIN m) \cup {id} |-> IF x = id THEN v ELSE m[x]]

DeleteEntry_Keep(m, id) == m

DeleteEntry(m, id) == [x \in (DOMAIN m) \ {id} |-> m[x]]

\* the orders in which a range over a map with key set S may visit the keys
Orders(S) ==
    {o \in [1..Cardinality(S) -> S] :
        \A i, j \in 1..Cardinality(S) : o[i] = o[j] => i = j}

\* os.WriteFile: the file holds data, whatever it held
WriteFile_Append(old, data) == old \o data

WriteFile(old, data) == data

\* the route generateConfig appends for one RouteConfig
CaddyRoute(route) == [host |-> <<route.Domain>>, dial |-> route.TargetURL]

\* the "routes" list generateConfig builds from c.routes, visited in order ord
RenderRoutes(m, ord) == [i \in 1..Len(ord) |-> CaddyRoute(m[ord[i]])]

\* the dbs entry generateConfig appends for one database path
DbConfig(dbPath) ==
    [path |-> dbPath, replica |-> Join(BackupDestination, Base(Dir(dbPath)))]

\* the "dbs" list generateConfig builds from b.dbs, visited in order ord
RenderDbs(m, ord) == [i \in 1..Len(ord) |-> DbConfig(m[ord[i]])]

CaddyRunning == caddyCmd # "nil"
LitestreamRunning == lsCmd = "proc"

\* CaddyManager.reloadConfig with c.routes = m: the file is regenerated
\* (genOk: template read, marshal and write succeed); with a process handle
\* the file is posted to the admin API, which adopts it iff the proxy is up
\* and answers 200 (postOk)
CaddyReloadResult(m, ord, genOk, postOk) ==
    LET file == WriteFile(caddyFile, RenderRoutes(m, ord)) IN
    IF ~genOk THEN
        [ret |-> "generate_failed", file |-> caddyFile, live |-> caddyLive]
    ELSE IF ~CaddyRunning THEN
        [ret |-> "ok", file |-> file, live |-> caddyLive]
    ELSE IF caddyUp /\ postOk THEN
        [ret |-> "ok", file |-> file, live |-> file]
    ELSE
        [ret |-> "reload_failed", file |-> file, live |-> caddyLive]

\* BackupManager.Start from a state st = [file, cmd, up, live, starts]:
\* generateConfig, then a new command is stored in b.cmd and started
LitestreamStartResult(st, m, ord, genOk, startOk) ==
    LET file == WriteFile(st.file, RenderDbs(m, ord)) IN
    IF ~genOk THEN
        [st EXCEPT !.ret = "generate_failed"]
    ELSE IF ~startOk THEN
        [st EXCEPT !.ret = "start_failed", !.file = file, !.cmd = "noproc"]
    ELSE
        [ret |-> "ok", file |-> file, cmd |-> "proc", up |-> TRUE,
         live |-> file, starts |-> st.starts + 1]

\* BackupManager.Stop: the daemon is killed, b.cmd keeps its value
LitestreamStopResult(st) ==
    IF st.cmd # "proc" THEN st ELSE [st EXCEPT !.up = FALSE]

LitestreamHere ==
    [ret |-> "ok", file |-> lsFile, cmd |-> lsCmd, up |-> lsUp,
     live |-> lsLive, starts |-> 0]

LitestreamReloadResult_SkipUnchanged(m, ord, genOk, ord2, gen2Ok, startOk) ==
    LET file == WriteFile(lsFile, RenderDbs(m, ord)) IN
    IF ~genOk THEN
        [LitestreamHere EXCEPT !.ret = "generate_failed"]
    ELSE IF ~LitestreamRunning \/ m = dbs THEN
        [LitestreamHere EXCEPT !.file = file]
    ELSE
        LitestreamStartResult(
            LitestreamStopResult([LitestreamHere EXCEPT !.file = file]),
            m, ord2, gen2Ok, startOk)

\* BackupManager.reloadConfig with b.dbs = m: generateConfig; with a started
\* daemon, Stop and Start (which generates the file again)
LitestreamReloadResult(m, ord, genOk, ord2, gen2Ok, startOk) ==
    LET file == WriteFile(lsFile, RenderDbs(m, ord)) IN
    IF ~genOk THEN
        [LitestreamHere EXCEPT !.ret = "generate_failed"]
    ELSE IF ~LitestreamRunning THEN
        [LitestreamHere EXCEPT !.file = file]
    ELSE
        LitestreamStartResult(
            LitestreamStopResult([LitestreamHere EXCEPT !.file = file]),
            m, ord2, gen2Ok, startOk)

NumRecCallers == 2
MaxRecCalls == 2
RecCallers == 1..NumRecCallers

\* pos: the call's place in serial; gen: its generateConfig succeeded; met: it
\* was entered while another call held the lock
NoRCall == [pc |-> "idle", op |-> "-", id |-> "-", val |-> <<>>, pos |-> 0,
            gen |-> FALSE, met |-> FALSE, ret |-> "-"]

\* had: the map held the id when the call began
NoRecAct == [op |-> "-", id |-> "-", had |-> FALSE, ret |-> "-"]

\* the reconcilers after construction, neither external process started
RecIdle ==
    /\ routes = <<>>
    /\ caddyFile = <<>>
    /\ caddyCmd = "nil"
    /\ caddyUp = FALSE
    /\ caddyLive = <<>>
    /\ dbs = <<>>
    /\ lsFile = <<>>
    /\ lsCmd = "nil"
    /\ lsUp = FALSE
    /\ lsLive = <<>>
    /\ lsStarts = 0
    /\ recAct = NoRecAct
    /\ want = <<>>
    /\ recMu = 0
    /\ rcall = [c \in RecCallers |-> NoRCall]
    /\ serial = <<>>

caddyVars == <<routes, caddyFile, caddyCmd, caddyUp, caddyLive>>
lsVars == <<dbs, lsFile, lsCmd, lsUp, lsLive, lsStarts>>

\* the failure inputs that the call cannot observe are fixed
CaddyInputs(genOk, postOk) == (~genOk \/ ~CaddyRunning) => postOk

LitestreamInputs(ord, genOk, ord2, gen2Ok, startOk) ==
    /\ (~genOk \/ ~LitestreamRunning) => (ord2 = ord /\ gen2Ok /\ startOk)
    /\ ~gen2Ok => startOk

CaddyReloads(m, op, id, ord, genOk, postOk) ==
    LET res == CaddyReloadResult(m, ord, genOk, postOk) IN
    /\ mgr = "proxy"
    /\ ord \in Orders(DOMAIN m)
    /\ CaddyInputs(genOk, postOk)
    /\ routes' = m
    /\ caddyFile' = res.file
    /\ caddyLive' = res.live
    /\ recAct' = [op |-> op, id |-> id, had |-> id \in DOMAIN routes, ret |-> res.ret]
    /\ UNCHANGED <<supVars, pipeVars, muVars, busVars, mgr, lockVars, caddyCmd, caddyUp, lsVars>>

\* CaddyManager.AddRoute(appID, domain, port)
AddRoute(id, domain, port, ord, genOk, postOk) ==
    /\ CaddyReloads(PutEntry(routes, id, RouteConfig(domain, port)),
                    "AddRoute", id, ord, genOk, postOk)
    /\ want' = PutEntry(want, id, <<domain, port>>)

\* CaddyManager.RemoveRoute(appID)
RemoveRoute(id, ord, genOk, postOk) ==
    /\ CaddyReloads(DeleteEntry(routes, id), "RemoveRoute", id, ord, genOk, postOk)
    /\ want' = [x \in (DOMAIN want) \ {id} |-> want[x]]

\* CaddyManager.Start, called once: the file is generated and the proxy is
\* started on it
CaddyStart(ord, genOk, startOk) ==
    /\ mgr = "proxy"
    /\ caddyCmd = "nil"
    /\ ~genOk => startOk
    /\ caddyFile' = IF genOk THEN WriteFile(caddyFile, RenderRoutes(routes, ord))
                    ELSE caddyFile
    /\ caddyCmd' = IF genOk /\ startOk THEN "proc" ELSE "nil"
    /\ caddyUp' = (genOk /\ startOk)
    /\ caddyLive' = IF genOk /\ startOk THEN caddyFile' ELSE caddyLive
    /\ recAct' = NoRecAct
    /\ UNCHANGED <<supVars, pipeVars, muVars, busVars, mgr, lockVars, routes, lsVars, want>>

\* CaddyManager.Stop: the proxy is killed, c.cmd keeps its value
CaddyStop ==
    /\ mgr = "proxy"
    /\ caddyCmd # "nil"
    /\ caddyUp
    /\ caddyUp' = FALSE
    /\ recAct' = NoRecAct
    /\ UNCHANGED <<supVars, pipeVars, muVars, busVars, mgr, lockVars, routes, caddyFile, caddyCmd,
                   caddyLive, lsVars, want>>

LitestreamBecomes(res) ==
    /\ lsFile' = res.file
    /\ lsCmd' = res.cmd
    /\ lsUp' = res.up
    /\ lsLive' = res.live
    /\ lsStarts' = res.starts

LitestreamReloads(m, op, id, ord, genOk, ord2, gen2Ok, startOk) ==
    LET res == LitestreamReloadResult(m, ord, genOk, ord2, gen2Ok, startOk) IN
    /\ mgr = "backup"
    /\ ord \in Orders(DOMAIN m) /\ ord2 \in Orders(DOMAIN m)
    /\ LitestreamInputs(ord, genOk, ord2, gen2Ok, startOk)
    /\ dbs' = m
    /\ LitestreamBecomes(res)
    /\ recAct' = [op |-> op, id |-> id, had |-> id \in DOMAIN dbs, ret |-> res.ret]
    /\ UNCHANGED <<supVars, pipeVars, muVars, busVars, mgr, lockVars, caddyVars>>

\* BackupManager.AddDatabase(appID, dbPath)
AddDatabase(id, dbPath, ord, genOk, ord2, gen2Ok, startOk) ==
    /\ LitestreamReloads(PutEntry(dbs, id, dbPath), "AddDatabase", id,
                         ord, genOk, ord2, gen2Ok, startOk)
    /\ want' = PutEntry(want, id, dbPath)

\* BackupManager.RemoveDatabase(appID)
RemoveDatabase(id, ord, genOk, ord2, gen2Ok, startOk) ==
    /\ LitestreamReloads(DeleteEntry(dbs, id), "RemoveDatabase", id,
                         ord, genOk, ord2, gen2Ok, startOk)
    /\ want' = [x \in (DOMAIN want) \ {id} |-> want[x]]

\* BackupManager.Start while no daemon is up
LitestreamStart(ord, genOk, startOk) ==
    /\ mgr = "backup"
    /\ ~lsUp
    /\ ~genOk => startOk
    /\ LitestreamBecomes(LitestreamStartResult(LitestreamHere, dbs, ord, genOk, startOk))
    /\ recAct' = NoRecAct
    /\ UNCHANGED <<supVars, pipeVars, muVars, busVars, mgr, lockVars, caddyVars, dbs, want>>

\* BackupManager.Stop
LitestreamStop ==
    /\ mgr = "backup"
    /\ LitestreamRunning
    /\ lsUp
    /\ LitestreamBecomes(LitestreamStopResult(LitestreamHere))
    /\ recAct' = NoRecAct
    /\ UNCHANGED <<supVars, pipeVars, muVars, busVars, mgr, lockVars, caddyVars, dbs, want>>

\* the sequences a range over a map of the model may produce
KeyOrders == UNION {Orders(S) : S \in SUBSET AppIds}

RecNext ==
    \/ \E id \in AppIds, args \in RouteArgs, ord \in KeyOrders,
          genOk, postOk \in BOOLEAN :
            AddRoute(id, args[1], args[2], ord, genOk, postOk)
    \/ \E id \in AppIds, ord \in KeyOrders, genOk, postOk \in BOOLEAN :
            RemoveRoute(id, ord, genOk, postOk)
    \/ \E ord \in Orders(DOMAIN routes), genOk, startOk \in BOOLEAN :
            CaddyStart(ord, genOk, startOk)
    \/ CaddyStop
    \/ \E id \in AppIds, dbPath \in DbPaths, ord, ord2 \in KeyOrders,
          genOk, gen2Ok, startOk \in BOOLEAN :
            AddDatabase(id, dbPath, ord, genOk, ord2, gen2Ok, startOk)
    \/ \E id \in AppIds, ord, ord2 \in KeyOrders, genOk, gen2Ok, startOk \in BOOLEAN :
            RemoveDatabase(id, ord, genOk, ord2, gen2Ok, startOk)
    \/ \E ord \in Orders(DOMAIN dbs), genOk, startOk \in BOOLEAN :
            LitestreamStart(ord, genOk, startOk)
    \/ LitestreamStop

\* ------------------------------------------------------------------------
\* Reconcilers: Add and Remove called concurrently, step by step
\* ------------------------------------------------------------------------
\* the values an Add can put into the map of the manager exercised
MapValues ==
    IF mgr = "proxy" THEN {RouteConfig(args[1], args[2]) : args \in RouteArgs}
    ELSE DbPaths

TheMap == IF mgr = "proxy" THEN routes ELSE dbs
TheFile == IF mgr = "proxy" THEN caddyFile ELSE lsFile
TheLive == IF mgr = "proxy" THEN caddyLive ELSE lsLive
Running == IF mgr = "proxy" THEN CaddyRunning ELSE LitestreamRunning
Render(m, ord) == IF mgr = "proxy" THEN RenderRoutes(m, ord) ELSE RenderDbs(m, ord)

\* no Add or Remove call is in progress
Quiet == \A c \in RecCallers : rcall[c].pc = "idle"

MuFree_Always == TRUE

\* mu.Lock() can be granted
MuFree == recMu = 0

lockFrame == <<supVars, pipeVars, busVars, muVars, mgr, recAct, want>>

\* caller c enters AddRoute/AddDatabase (op "Add") or RemoveRoute/
\* RemoveDatabase (op "Remove")
RecCall(c, op, id, val) ==
    /\ rcall[c].pc = "idle"
    /\ Len(serial) + Cardinality({x \in RecCallers : rcall[x].pc = "lock"}) < MaxRecCalls
    /\ op = "Add" => val \in MapValues
    /\ op = "Remove" => val = <<>>
    /\ rcall' = [rcall EXCEPT ![c] = [NoRCall EXCEPT !.pc = "lock", !.op = op,
                                                    !.id = id, !.val = val,
                                                    !.met = (recMu # 0)]]
    /\ UNCHANGED <<lockFrame, caddyVars, lsVars, recMu, serial>>

\* mu.Lock()
RecLock(c) ==
    /\ rcall[c].pc = "lock"
    /\ MuFree
    /\ recMu' = c
    /\ serial' = Append(serial, [op |-> rcall[c].op, id |-> rcall[c].id,
                                 val |-> rcall[c].val, ret |-> "-"])
    /\ rcall' = [rcall EXCEPT ![c].pc = "mutate", ![c].pos = Len(serial) + 1]
    /\ UNCHANGED <<lockFrame, caddyVars, lsVars>>

\* the assignment to, or the delete from, the map
RecMutate(c) ==
    LET m == IF rcall[c].op = "Add" THEN PutEntry(TheMap, rcall[c].id, rcall[c].val)
             ELSE DeleteEntry(TheMap, rcall[c].id) IN
    /\ rcall[c].pc = "mutate"
    /\ routes' = IF mgr = "proxy" THEN m ELSE routes
    /\ dbs' = IF mgr = "backup" THEN m ELSE dbs
    /\ rcall' = [rcall EXCEPT ![c].pc = "generate"]
    /\ UNCHANGED <<lockFrame, caddyFile, caddyCmd, caddyUp, caddyLive,
                   lsFile, lsCmd, lsUp, lsLive, lsStarts, recMu, serial>>

\* reloadConfig, first half: generateConfig, and the return when it failed or
\* no external process was started
RecGenerate(c, ord, genOk) ==
    /\ rcall[c].pc = "generate"
    /\ ord \in Orders(DOMAIN TheMap)
    /\ caddyFile' = IF mgr = "proxy" /\ genOk
                    THEN WriteFile(caddyFile, RenderRoutes(routes, ord)) ELSE caddyFile
    /\ lsFile' = IF mgr = "backup" /\ genOk
                 THEN WriteFile(lsFile, RenderDbs(dbs, ord)) ELSE lsFile
    /\ rcall' = [rcall EXCEPT ![c].pc = IF genOk /\ Running THEN "reload" ELSE "unlock",
                              ![c].gen = genOk,
                              ![c].ret = IF genOk THEN "ok" ELSE "generate_failed"]
    /\ UNCHANGED <<lockFrame, routes, caddyCmd, caddyUp, caddyLive,
                   dbs, lsCmd, lsUp, lsLive, lsStarts, recMu, serial>>

\* CaddyManager.reloadConfig, second half: the file is posted to the admin API
CaddyPost(c, postOk) ==
    /\ mgr = "proxy"
    /\ rcall[c].pc = "reload"
    /\ caddyLive' = IF caddyUp /\ postOk THEN caddyFile ELSE caddyLive
    /\ rcall' = [rcall EXCEPT ![c].pc = "unlock",
                              ![c].ret = IF caddyUp /\ postOk THEN "ok" ELSE "reload_failed"]
    /\ UNCHANGED <<lockFrame, routes, caddyFile, caddyCmd, caddyUp, lsVars, recMu, serial>>

\* BackupManager.reloadConfig, second half: Stop and Start
LitestreamRestart(c, ord, genOk, startOk) ==
    LET res == LitestreamStartResult(LitestreamStopResult(LitestreamHere),
                                     dbs, ord, genOk, startOk) IN
    /\ mgr = "backup"
    /\ rcall[c].pc = "reload"
    /\ ord \in Orders(DOMAIN dbs)
    /\ ~genOk => startOk
    /\ LitestreamBecomes(res)
    /\ rcall' = [rcall EXCEPT ![c].pc = "unlock", ![c].ret = res.ret]
    /\ UNCHANGED <<lockFrame, caddyVars, dbs, recMu, serial>>

\* the deferred mu.Unlock() and the return
RecUnlock(c) ==
    /\ rcall[c].pc = "unlock"
    /\ recMu' = 0
    /\ serial' = [serial EXCEPT ![rcall[c].pos].ret = rcall[c].ret]
    /\ rcall' = [rcall EXCEPT ![c].pc = "idle"]
    /\ UNCHANGED <<lockFrame, caddyVars, lsVars>>

\* Start and Stop of the manager, called while no Add or Remove is in progress
QuietStart ==
    /\ Quiet
    /\ \/ \E ord \in Orders(DOMAIN routes), genOk, startOk \in BOOLEAN :
            CaddyStart(ord, genOk, startOk)
       \/ \E ord \in Orders(DOMAIN dbs), genOk, startOk \in BOOLEAN :
            LitestreamStart(ord, genOk, startOk)

QuietStop == Quiet /\ (CaddyStop \/ LitestreamStop)

LockNext ==
    \/ \E c \in RecCallers, id \in AppIds, val \in MapValues : RecCall(c, "Add", id, val)
    \/ \E c \in RecCallers, id \in AppIds : RecCall(c, "Remove", id, <<>>)
    \/ \E c \in RecCallers : RecLock(c)
    \/ \E c \in RecCallers : RecMutate(c)
    \/ \E c \in RecCallers, ord \in KeyOrders, genOk \in BOOLEAN : RecGenerate(c, ord, genOk)
    \/ \E c \in RecCallers, postOk \in BOOLEAN : CaddyPost(c, postOk)
    \/ \E c \in RecCallers, ord \in KeyOrders, genOk, startOk \in BOOLEAN :
          LitestreamRestart(c, ord, genOk, startOk)
    \/ \E c \in RecCallers : RecUnlock(c)
    \/ QuietStart
    \/ QuietStop

\* ------------------------------------------------------------------------
\* Pipeline.DeployApp (package deploy) over the record store (package db)
\* ------------------------------------------------------------------------
MaxDeploys == 2
DeployIds == 1..MaxDeploys
Commits == {"c1"}
\* the (repository, branch) pairs an application is registered with
AppSources == {<<"R", "main">>, <<"R", "dev">>, <<"Q", "main">>}
Stages == {"fetch", "build", "deploy"}

\* calls: the stages invoked so far, each with its result
NoInv == [pc |-> "idle", app |-> "-", commit |-> "-", expired |-> FALSE,
          status |-> "-", ret |-> "-", evs |-> <<>>, calls |-> <<>>]

\* a row of table apps
AppRow(src) ==
    [Status |-> "created", LastDeploy |-> 0, RepoURL |-> src[1], Branch |-> src[2]]

NoEvent == [Type |-> "-", RepoURL |-> "-", Branch |-> "-", CommitSHA |-> "-"]
NoHook == [op |-> "-", event |-> NoEvent, ret |-> "-"]

\* got, got2: what GetApp answered in UndeployApp and in Undeploy;
\* calls: the sub-steps Undeploy attempted, each with its result
NoUnd == [pc |-> "idle", id |-> "-", got |-> "-", got2 |-> "-",
          calls |-> <<>>, evs |-> <<>>, ret |-> "-"]

\* backup: config.BackupDatabases with a backup client; todo: the sub-steps
\* still ahead; calls: the sub-steps made, each with its result
NoDCall == [pc |-> "idle", id |-> "-", backup |-> FALSE, todo |-> <<>>,
            calls |-> <<>>, ret |-> "-", port |-> 0, domain |-> "-",
            env |-> <<>>, hadDb |-> FALSE, n |-> 0]

NoParse == [done |-> FALSE, name |-> <<>>, err |-> FALSE]

\* the repositories, by the name parseRepoName gives their directory, and
\* the commits a working tree can be at ("-": not cloned)
Repos == {"R", "Q"}
SrcCommits == {"c1", "c2"}
Trees == SrcCommits \cup {"-"}

\* a DeployApp invocation as the fetcher and the builder see it; read: the
\* commit of the tree the build read
NoRun == [pc |-> "idle", repo |-> "-", commit |-> "-", read |-> "-", ret |-> "-"]

\* mu: the invocation holding g.mu, 0 for none; dir: the working tree of
\* each repository's source directory
NoFetcher == [mu |-> 0, cleanup |-> FALSE, dir |-> [r \in Repos |-> "-"],
              run |-> [d \in DeployIds |-> NoRun]]

\* no parseRepoName call, no FetchSource call
FetchIdle == repoURL = <<>> /\ parsed = NoParse /\ fetcher = NoFetcher

\* the pipeline and an empty record store before any call
PipeIdle ==
    /\ appsTbl = <<>>
    /\ deps = <<>>
    /\ inv = [d \in DeployIds |-> NoInv]
    /\ hook = NoHook
    /\ und = NoUnd
    /\ FetchIdle
    /\ dcall = NoDCall

DeployEvent_AlwaysDeployed(type, id, d, key, val) ==
    [Type |-> "app_deployed", AppID |-> id, deployment_id |-> d, key |-> key, val |-> val]

\* events.Event with the Data the pipeline attaches
DeployEvent(type, id, d, key, val) ==
    [Type |-> type, AppID |-> id, deployment_id |-> d, key |-> key, val |-> val]

\* a statement on the record store under timeoutCtx succeeds
DbOk(d, dbOk) == dbOk /\ ~inv[d].expired

\* a pipeline stage run under timeoutCtx succeeds
StageOk(d, ok) == ok /\ ~inv[d].expired

UpdateDeployment_AllRowsOfApp(tbl, d, status, logs, ok) ==
    IF ok /\ d \in DOMAIN tbl
    THEN [x \in DOMAIN tbl |->
            IF tbl[x].AppID = tbl[d].AppID
            THEN [tbl[x] EXCEPT !.Status = status, !.Logs = logs, !.Ended = TRUE]
            ELSE tbl[x]]
    ELSE tbl

\* Database.UpdateDeployment: the row is rewritten iff the statement succeeds
UpdateDeployment(tbl, d, status, logs, ok) ==
    IF ok /\ d \in DOMAIN tbl
    THEN [tbl EXCEPT ![d].Status = status, ![d].Logs = logs, ![d].Ended = TRUE]
    ELSE tbl

NextStage_NoBuild(stage) ==
    CASE stage = "fetch" -> "deploy"
      [] stage = "build" -> "deploy"
      [] stage = "deploy" -> "updateApp"

\* where DeployApp goes after a stage that returned success
NextStage(stage) ==
    CASE stage = "fetch" -> "build"
      [] stage = "build" -> "deploy"
      [] stage = "deploy" -> "updateApp"

pipeFrame == <<supVars, recVars, busVars, muVars, fetchVars, dcall, hook, und>>

\* DeployApp(ctx, appID, commit) is called: timeoutCtx is created
DeployApp(d, id, commit) ==
    /\ inv[d].pc = "idle"
    /\ \A e \in DeployIds : e < d => inv[e].pc # "idle"
    /\ inv' = [inv EXCEPT ![d] = [NoInv EXCEPT !.pc = "getApp", !.app = id,
                                                !.commit = commit]]
    /\ UNCHANGED <<pipeFrame, appsTbl, deps>>

\* the pipeline timeout of invocation d expires
Timeout(d) ==
    /\ inv[d].pc \notin {"idle", "returned"}
    /\ ~inv[d].expired
    /\ inv' = [inv EXCEPT ![d].expired = TRUE]
    /\ UNCHANGED <<pipeFrame, appsTbl, deps>>

\* p.database.GetApp(timeoutCtx, appID)
DeployGetApp(d, dbOk) ==
    /\ inv[d].pc = "getApp"
    /\ inv' = IF DbOk(d, dbOk) /\ inv[d].app \in DOMAIN appsTbl
              THEN [inv EXCEPT ![d].pc = "create"]
              ELSE [inv EXCEPT ![d].pc = "returned", ![d].ret = "error"]
    /\ UNCHANGED <<pipeFrame, appsTbl, deps>>

\* p.database.CreateDeployment(timeoutCtx, deployment) and, once the row
\* exists, the "deployment started" event
DeployCreate(d, dbOk) ==
    /\ inv[d].pc = "create"
    /\ IF DbOk(d, dbOk)
       THEN /\ deps' = PutEntry(deps, d,
                   [AppID |-> inv[d].app, CommitSHA |-> inv[d].commit,
                    Status |-> "pending", Logs |-> "", Ended |-> FALSE])
            /\ inv' = [inv EXCEPT ![d].pc = "fetch", ![d].status = "pending",
                          ![d].evs = Append(@, DeployEvent("app_deployed",
                               inv[d].app, d, "commit", inv[d].commit))]
       ELSE /\ deps' = deps
            /\ inv' = [inv EXCEPT ![d].pc = "returned", ![d].ret = "error"]
    /\ UNCHANGED <<pipeFrame, appsTbl>>

\* one of FetchSource, DetectAndBuild and Deploy, and on its failure
\* updateDeployment("failed", ...), the "deploy failed" event and the return
DeployStage(d, stage, ok, dbOk) ==
    /\ inv[d].pc = stage
    /\ StageOk(d, ok) => dbOk
    /\ IF StageOk(d, ok)
       THEN /\ inv' = [inv EXCEPT ![d].pc = NextStage(stage),
                          ![d].calls = Append(@, <<stage, "ok">>)]
            /\ deps' = deps
       ELSE /\ deps' = UpdateDeployment(deps, d, "failed", stage, DbOk(d, dbOk))
            /\ inv' = [inv EXCEPT ![d].pc = "returned", ![d].ret = "error",
                          ![d].status = "failed",
                          ![d].calls = Append(@, <<stage, "error">>),
                          ![d].evs = Append(@, DeployEvent("app_failed",
                               inv[d].app, d, "error", stage))]
    /\ UNCHANGED <<pipeFrame, appsTbl>>

\* Database.UpdateApp: the row is rewritten iff the statement succeeds
UpdateApp(tbl, id, status, last, ok) ==
    IF ok /\ id \in DOMAIN tbl
    THEN [tbl EXCEPT ![id].Status = status, ![id].LastDeploy = last]
    ELSE tbl

\* the end of Deployer.Deploy once the process is started: the app row is
\* set to running under the deploy context, a failure is only logged
DeployUpdateApp(d, dbOk) ==
    /\ inv[d].pc = "updateApp"
    /\ appsTbl' = UpdateApp(appsTbl, inv[d].app, "running", d, DbOk(d, dbOk))
    /\ inv' = [inv EXCEPT ![d].pc = "finish"]
    /\ UNCHANGED <<pipeFrame, deps>>

\* updateDeployment("success", ...), the "deployed" event and return nil
DeployFinish(d, dbOk) ==
    /\ inv[d].pc = "finish"
    /\ deps' = UpdateDeployment(deps, d, "success", "completed", DbOk(d, dbOk))
    /\ inv' = [inv EXCEPT ![d].pc = "returned", ![d].ret = "nil",
                  ![d].status = "success",
                  ![d].evs = Append(@, DeployEvent("app_deployed",
                       inv[d].app, d, "commit", inv[d].commit))]
    /\ UNCHANGED <<pipeFrame, appsTbl>>

PipeNext ==
    \/ \E d \in DeployIds, id \in AppIds, commit \in Commits : DeployApp(d, id, commit)
    \/ \E d \in DeployIds : Timeout(d)
    \/ \E d \in DeployIds, dbOk \in BOOLEAN : DeployGetApp(d, dbOk)
    \/ \E d \in DeployIds, dbOk \in BOOLEAN : DeployCreate(d, dbOk)
    \/ \E d \in DeployIds, stage \in Stages, ok, dbOk \in BOOLEAN :
            DeployStage(d, stage, ok, dbOk)
    \/ \E d \in DeployIds, dbOk \in BOOLEAN : DeployUpdateApp(d, dbOk)
    \/ \E d \in DeployIds, dbOk \in BOOLEAN : DeployFinish(d, dbOk)

\* ------------------------------------------------------------------------
\* GitHubFetcher: parseRepoName
\* ------------------------------------------------------------------------
MaxUrlLen == 5

\* strings are sequences of these pieces, each standing for itself
Pieces == {"github.com", "/", "u", ".git"}

RECURSIVE SeqsUpTo(_)
SeqsUpTo(n) ==
    IF n = 0 THEN {<<>>}
    ELSE SeqsUpTo(n - 1) \cup
         {Append(p, x) : p \in {q \in SeqsUpTo(n - 1) : Len(q) = n - 1}, x \in Pieces}

Urls == SeqsUpTo(MaxUrlLen)

\* strings.Contains(s, "github.com")
ContainsGitHub(s) == \E i \in 1..Len(s) : s[i] = "github.com"

\* strings.Split(s, "/"): the pieces between the separators, one more than
\* there are separators
Split(s) ==
    LET seps == {i \in 1..Len(s) : s[i] = "/"}
        ends == [j \in 0..(Cardinality(seps) + 1) |->
                    IF j = 0 THEN 0
                    ELSE IF j = Cardinality(seps) + 1 THEN Len(s) + 1
                    ELSE CHOOSE i \in seps : Cardinality({x \in seps : x < i}) = j - 1]
    IN [k \in 1..(Cardinality(seps) + 1) |-> SubSeq(s, ends[k - 1] + 1, ends[k] - 1)]

\* strings.TrimSuffix(s, ".git")
TrimSuffix(s) ==
    IF s # <<>> /\ s[Len(s)] = ".git" THEN SubSeq(s, 1, Len(s) - 1) ELSE s

\* parseRepoName(repoURL)
parseRepoName(url) ==
    LET parts == Split(url) IN
    IF ContainsGitHub(url) THEN
        IF Len(parts) < 2 THEN [done |-> TRUE, name |-> <<>>, err |-> TRUE]
        ELSE [done |-> TRUE, err |-> FALSE,
              name |-> parts[Len(parts) - 1] \o <<"-">> \o TrimSuffix(parts[Len(parts)])]
    ELSE IF Len(parts) = 0 THEN [done |-> TRUE, name |-> <<>>, err |-> TRUE]
    ELSE [done |-> TRUE, err |-> FALSE, name |-> TrimSuffix(parts[Len(parts)])]

\* a call of parseRepoName on repoURL
ParseRepoName ==
    /\ ~parsed.done
    /\ parsed' = parseRepoName(repoURL)
    /\ UNCHANGED <<supVars, recVars, busVars, muVars, appsTbl, deps, inv, hook, und, dcall, repoURL, fetcher>>

FetchNext == ParseRepoName

\* ------------------------------------------------------------------------
\* GitHubFetcher.FetchSource and the build that follows it in DeployApp
\* ------------------------------------------------------------------------
srcFrame == <<supVars, recVars, busVars, muVars, appsTbl, deps, inv, hook, und,
              dcall, repoURL, parsed>>

\* invocation d of DeployApp calls FetchSource for its application's
\* repository and commit; the directory is made before the lock is taken
SourceCall(d, repo, commit) ==
    /\ fetcher.run[d].pc = "idle"
    /\ \A e \in DeployIds : e < d => fetcher.run[e].pc # "idle"
    /\ fetcher' = [fetcher EXCEPT !.run[d] =
                      [NoRun EXCEPT !.pc = "lock", !.repo = repo, !.commit = commit]]
    /\ UNCHANGED srcFrame

\* g.mu.Lock()
SourceLock(d) ==
    /\ fetcher.run[d].pc = "lock"
    /\ fetcher.mu = 0
    /\ fetcher' = [fetcher EXCEPT !.mu = d, !.run[d].pc = "update"]
    /\ UNCHANGED srcFrame

\* cloneRepo or updateRepo: on success the tree is at the head of the
\* branch; on failure it is whatever git left, or removed by CleanupSource,
\* and the call returns with g.mu unlocked
SourceUpdate(d, tree, ok, cleanOk) ==
    LET r == fetcher.run[d].repo IN
    /\ fetcher.run[d].pc = "update"
    /\ ok => tree \in SrcCommits /\ cleanOk
    /\ fetcher' =
         IF ok
         THEN [fetcher EXCEPT !.dir[r] = tree, !.run[d].pc = "checkout"]
         ELSE [fetcher EXCEPT
                 !.dir[r] = IF fetcher.cleanup /\ cleanOk THEN "-" ELSE tree,
                 !.mu = 0,
                 !.run[d].pc = "returned", !.run[d].ret = "error"]
    /\ UNCHANGED srcFrame

\* checkoutCommit(timeoutCtx, sourceDir, commit), then the deferred unlock
\* and the return of sourceDir
SourceCheckout(d, ok) ==
    LET r == fetcher.run[d].repo IN
    /\ fetcher.run[d].pc = "checkout"
    /\ fetcher' =
         IF ok
         THEN [fetcher EXCEPT !.dir[r] = fetcher.run[d].commit, !.mu = 0,
                              !.run[d].pc = "build"]
         ELSE [fetcher EXCEPT !.mu = 0,
                              !.run[d].pc = "returned", !.run[d].ret = "error"]
    /\ UNCHANGED srcFrame

\* p.builder.DetectAndBuild(timeoutCtx, sourceDir, appID) reads the tree
SourceBuild(d) ==
    /\ fetcher.run[d].pc = "build"
    /\ fetcher' = [fetcher EXCEPT !.run[d].pc = "returned", !.run[d].ret = "nil",
                                  !.run[d].read = fetcher.dir[fetcher.run[d].repo]]
    /\ UNCHANGED srcFrame

SourceNext ==
    \/ \E d \in DeployIds, repo \in Repos, commit \in SrcCommits :
          SourceCall(d, repo, commit)
    \/ \E d \in DeployIds : SourceLock(d)
    \/ \E d \in DeployIds, tree \in Trees, ok, cleanOk \in BOOLEAN :
          SourceUpdate(d, tree, ok, cleanOk)
    \/ \E d \in DeployIds, ok \in BOOLEAN : SourceCheckout(d, ok)
    \/ \E d \in DeployIds : SourceBuild(d)

\* ------------------------------------------------------------------------
\* Pipeline.ProcessWebhook
\* ------------------------------------------------------------------------
EventTypes == {"push", "pull_request"}
EventCommits == {"c1", "c2"}

\* the WebhookEvent values ProcessWebhook is called with
WebhookEvents ==
    {[Type |-> t, RepoURL |-> src[1], Branch |-> src[2], CommitSHA |-> c] :
        t \in EventTypes, src \in AppSources, c \in EventCommits}

\* the ids in the order of the apps' names
AppsByName == <<"a1", "a2">>

\* Database.ListApps: the rows of table apps, ORDER BY name
ListedApps == SelectSeq(AppsByName, LAMBDA id : id \in DOMAIN appsTbl)

AppMatches_RepoOnly(id, event) == appsTbl[id].RepoURL = event.RepoURL

\* the condition under which the loop of ProcessWebhook deploys an app
AppMatches(id, event) ==
    appsTbl[id].RepoURL = event.RepoURL /\ appsTbl[id].Branch = event.Branch

\* the DeployApp invocations not begun, lowest first
RECURSIVE IdleSlots(_)
IdleSlots(from) ==
    IF from > MaxDeploys THEN <<>>
    ELSE IF inv[from].pc = "idle" THEN <<from>> \o IdleSlots(from + 1)
    ELSE IdleSlots(from + 1)

\* ProcessWebhook(ctx, event): the apps are listed and a goroutine running
\* DeployApp(context.Background(), app.ID, event.CommitSHA) is launched for
\* every app the loop matches
ProcessWebhook(event, listOk) ==
    LET match == SelectSeq(ListedApps, LAMBDA id : AppMatches(id, event))
        slots == IdleSlots(1)
        at(d) == CHOOSE i \in 1..Len(match) : slots[i] = d
    IN
    /\ Len(match) <= Len(slots)
    /\ IF listOk
       THEN /\ inv' = [d \in DeployIds |->
                         IF \E i \in 1..Len(match) : slots[i] = d
                         THEN [NoInv EXCEPT !.pc = "getApp", !.app = match[at(d)],
                                            !.commit = event.CommitSHA]
                         ELSE inv[d]]
            /\ hook' = [op |-> "ProcessWebhook", event |-> event, ret |-> "nil"]
       ELSE /\ inv' = inv
            /\ hook' = [op |-> "ProcessWebhook", event |-> event, ret |-> "error"]
    /\ UNCHANGED <<supVars, recVars, busVars, muVars, fetchVars, dcall, appsTbl, deps, und>>

HookNext ==
    \E event \in WebhookEvents, listOk \in BOOLEAN : ProcessWebhook(event, listOk)

\* ------------------------------------------------------------------------
\* Pipeline.UndeployApp and Deployer.Undeploy
\* ------------------------------------------------------------------------
GetAppAnswers == {"found", "notfound", "error"}

\* what Database.GetApp can answer for id: the row, ErrAppNotFound when there
\* is none, or another error
CanAnswer(id, got) ==
    \/ got = "error"
    \/ got = "found" /\ id \in DOMAIN appsTbl
    \/ got = "notfound" /\ id \notin DOMAIN appsTbl

\* GetApp returned no error, or one that errors.Is(err, ErrAppNotFound)
Tolerated(got) == got # "error"

SubSteps == <<"StopApp", "RemoveRoute", "RemoveDatabase", "RemoveAll">>

Result(ok) == IF ok THEN "ok" ELSE "error"

UndeployResult_AbortOnFailure(id, got2, oks, updOk) ==
    LET failed == {i \in 1..Len(SubSteps) : ~oks[i]}
        last == IF failed = {} THEN Len(SubSteps)
                ELSE CHOOSE i \in failed : \A j \in failed : i <= j
        calls == [i \in 1..last |-> <<SubSteps[i], Result(oks[i])>>]
    IN  IF ~Tolerated(got2) THEN
            [ret |-> "error", calls |-> <<>>, tbl |-> appsTbl]
        ELSE IF failed # {} THEN
            [ret |-> "error", calls |-> calls, tbl |-> appsTbl]
        ELSE
            [ret |-> "nil", calls |-> calls,
             tbl |-> IF got2 = "found"
                     THEN UpdateApp(appsTbl, id, "undeployed", appsTbl[id].LastDeploy, updOk)
                     ELSE appsTbl]

\* Deployer.Undeploy(timeoutCtx, appID) with a backup client configured:
\* GetApp; StopApp, RemoveRoute, RemoveDatabase and RemoveAll, oks[i] telling
\* whether the i-th succeeds, a failure being logged; with a row found the
\* update of its status, whose failure is logged too
UndeployResult(id, got2, oks, updOk) ==
    IF ~Tolerated(got2) THEN
        [ret |-> "error", calls |-> <<>>, tbl |-> appsTbl]
    ELSE
        [ret |-> "nil",
         calls |-> [i \in 1..Len(SubSteps) |-> <<SubSteps[i], Result(oks[i])>>],
         tbl |-> IF got2 = "found"
                 THEN UpdateApp(appsTbl, id, "undeployed", appsTbl[id].LastDeploy, updOk)
                 ELSE appsTbl]

undFrame == <<supVars, recVars, busVars, muVars, fetchVars, dcall, deps, inv, hook>>

\* UndeployApp(ctx, appID) is called: GetApp, and unless it failed with an
\* error other than not-found, the "undeploy started" event
UndeployApp(id, got) ==
    /\ und.pc \in {"idle", "returned"}
    /\ CanAnswer(id, got)
    /\ und' = IF Tolerated(got)
              THEN [NoUnd EXCEPT !.pc = "undeploy", !.id = id, !.got = got,
                                 !.evs = <<Event("app_stopped", id)>>]
              ELSE [NoUnd EXCEPT !.pc = "returned", !.id = id, !.got = got,
                                 !.ret = "error"]
    /\ UNCHANGED <<undFrame, appsTbl>>

\* p.deployer.Undeploy and the event and return that follow it
UndeployRun(got2, oks, updOk) ==
    LET res == UndeployResult(und.id, got2, oks, updOk) IN
    /\ und.pc = "undeploy"
    /\ CanAnswer(und.id, got2)
    /\ got2 # "found" => updOk
    /\ got2 = "error" => \A i \in 1..Len(SubSteps) : oks[i]
    /\ appsTbl' = res.tbl
    /\ und' = [und EXCEPT !.pc = "returned", !.got2 = got2, !.calls = res.calls,
                  !.ret = res.ret,
                  !.evs = Append(@, IF res.ret = "nil"
                                    THEN Event("app_stopped", und.id)
                                    ELSE Event("app_failed", und.id))]
    /\ UNCHANGED undFrame

UndeployNext ==
    \/ \E id \in AppIds, got \in GetAppAnswers : UndeployApp(id, got)
    \/ \E got2 \in GetAppAnswers, oks \in [1..Len(SubSteps) -> BOOLEAN],
          updOk \in BOOLEAN : UndeployRun(got2, oks, updOk)

\* ------------------------------------------------------------------------
\* Deployer.Deploy
\* ------------------------------------------------------------------------
\* the calls of Deploy, one after the other
MaxDeployerCalls == 2

\* BuildResult: what of it decides the sub-steps and the port
Builds == [HasStatic : BOOLEAN, HasDatabase : BOOLEAN, Port : {0, 3000}]

\* the PORT entry an application's own environment may hold
PortEntries == {<< <<"PORT", "5000">> >>}

\* App: the fields of the stored application that Deploy reads
AppDetails == [Domain : {"a.example.com"}, Port : {0, 4000},
               Environment : {<<>>} \cup PortEntries]

\* strconv.Itoa on the ports of the model
Itoa(n) ==
    CASE n = 3000 -> "3000"
      [] n = 4000 -> "4000"
      [] n = 5000 -> "5000"
      [] n = DefaultPort -> "8080"

\* the port Deploy chooses: the build's, the configured default when the
\* build has none, the application's when it has one
DeployPort(b, app) ==
    LET port == IF b.Port = 0 THEN DefaultPort ELSE b.Port
    IN  IF app.Port # 0 THEN app.Port ELSE port

\* env[e.Key] = e.Value for each entry of a list, in order
RECURSIVE SetAll(_, _)
SetAll(env, list) ==
    IF list = <<>> THEN env
    ELSE SetAll(PutEntry(env, Head(list)[1], Head(list)[2]), Tail(list))

\* the env map Deploy builds, as far as PORT is concerned: PORT is set from
\* the chosen port, then the application's entries are set over it
DeployEnv(b, app) ==
    SetAll(PutEntry(<<>>, "PORT", Itoa(DeployPort(b, app))), app.Environment)

\* filepath.Join(dbDir, "app.db") of the application
DbPathOf(id) == <<"data", "app-data", id, "db", "app.db">>

\* the executable Deploy copies the build to
AppBinaryPath == "bin1"

\* the sub-steps of Deploy for a build, in order
DeploySteps(b, backup) ==
    <<"GetApp", "MkdirAll", "copyFile", "Chmod">>
    \o (IF b.HasStatic THEN <<"copyDir">> ELSE <<>>)
    \o (IF b.HasDatabase /\ backup THEN <<"AddDatabase">> ELSE <<>>)
    \o <<"AddRoute", "StartApp", "UpdateApp">>

Mandatory_AlsoBackup(step) ==
    step \in {"GetApp", "MkdirAll", "copyFile", "Chmod", "AddDatabase", "AddRoute", "StartApp"}

\* the sub-steps whose error Deploy returns; the error of the others is
\* logged
Mandatory(step) ==
    step \in {"GetApp", "MkdirAll", "copyFile", "Chmod", "AddRoute", "StartApp"}

deployFrame == <<supVars, recVars, busVars, muVars, fetchVars, appsTbl, deps, inv, hook, und>>

\* what a sub-step leaves alone in every case
stepFrame == <<mgr, recAct, want, lockVars, busVars, muVars, fetchVars,
               appsTbl, deps, inv, hook, und, ctxDone, cfgMaxRestarts>>

\* Deploy(ctx, buildResult, appID) is called; app is what GetApp will return
DeployerDeploy(id, b, app) ==
    /\ dcall.pc \in {"idle", "returned"}
    /\ dcall.n < MaxDeployerCalls
    /\ dcall' = [NoDCall EXCEPT !.pc = "run", !.id = id,
                                !.n = dcall.n + 1,
                                !.backup = dcall.backup,
                                !.port = DeployPort(b, app),
                                !.domain = app.Domain,
                                !.env = DeployEnv(b, app),
                                !.hadDb = id \in DOMAIN dbs,
                                !.todo = DeploySteps(b, dcall.backup)]
    /\ UNCHANGED deployFrame

\* d.proxy.AddRoute / RemoveRoute with c.routes = m, as Deploy calls them
DeployerProxy(m, ord, genOk) ==
    LET res == CaddyReloadResult(m, ord, genOk, TRUE) IN
    /\ ord \in Orders(DOMAIN m)
    /\ routes' = m
    /\ caddyFile' = res.file
    /\ caddyLive' = res.live
    /\ UNCHANGED <<caddyCmd, caddyUp>>

\* d.backup.AddDatabase(appID, dbPath), as Deploy calls it
DeployerBackup(m, ord, genOk) ==
    LET res == LitestreamReloadResult(m, ord, genOk, ord, TRUE, TRUE) IN
    /\ ord \in Orders(DOMAIN m)
    /\ dbs' = m
    /\ LitestreamBecomes(res)

\* d.supervisor.StartApp(appID, appBinaryPath, envSlice), as Deploy calls it
DeployerStart(id, spawnOk) ==
    LET res == StartAppResult(id, AppBinaryPath, spawnOk) IN
    /\ AlreadyRunning(id) \/ FreeRids # {}
    /\ AlreadyRunning(id) => spawnOk
    /\ Becomes(res)
    /\ act' = [op |-> "StartApp", id |-> id, by |-> "client", ret |-> res.ret]
    /\ autoRestarts' = IF res.ret = "ok"
                       THEN [autoRestarts EXCEPT ![id] = 0] ELSE autoRestarts

\* whether the sub-step that has just run returned no error
StepOk(step, in, ord) ==
    CASE step = "AddRoute" ->
           CaddyReloadResult(PutEntry(routes, dcall.id,
               RouteConfig(dcall.domain, dcall.port)), ord, in, TRUE).ret = "ok"
      [] step = "AddDatabase" -> in
      [] step = "StartApp" ->
           StartAppResult(dcall.id, AppBinaryPath, in).ret = "ok"
      [] OTHER -> in

\* the next sub-step; the error of a mandatory one ends the call, after the
\* route is removed again when it is StartApp that failed
DeployerStep(in, ord) ==
    LET step == Head(dcall.todo)
        id == dcall.id
        ok == StepOk(step, in, ord)
        calls == Append(dcall.calls, <<step, Result(ok)>>)
    IN
    /\ dcall.pc = "run"
    /\ IF step = "AddRoute"
       THEN DeployerProxy(PutEntry(routes, id, RouteConfig(dcall.domain, dcall.port)),
                          ord, in)
       ELSE UNCHANGED caddyVars
    /\ IF step = "AddDatabase"
       THEN DeployerBackup(PutEntry(dbs, id, DbPathOf(id)), ord, in)
       ELSE UNCHANGED lsVars
    /\ IF step = "StartApp"
       THEN DeployerStart(id, in)
       ELSE UNCHANGED <<procs, recs, alive, task, act, pub, autoRestarts>>
    /\ step \notin {"AddRoute", "AddDatabase"} => ord = <<>>
    /\ dcall' =
         IF ok \/ ~Mandatory(step)
         THEN IF Tail(dcall.todo) = <<>>
              THEN [dcall EXCEPT !.pc = "returned", !.todo = <<>>,
                                 !.calls = calls, !.ret = "nil"]
              ELSE [dcall EXCEPT !.todo = Tail(@), !.calls = calls]
         ELSE IF step = "StartApp"
              THEN [dcall EXCEPT !.pc = "cleanup", !.calls = calls]
              ELSE [dcall EXCEPT !.pc = "returned", !.calls = calls, !.ret = "error"]
    /\ UNCHANGED stepFrame

\* d.proxy.RemoveRoute(appID) after a failed start, its error logged
DeployerCleanup(ok, ord) ==
    /\ dcall.pc = "cleanup"
    /\ DeployerProxy(DeleteEntry(routes, dcall.id), ord, ok)
    /\ dcall' = [dcall EXCEPT !.pc = "returned", !.ret = "error",
                    !.calls = Append(@, <<"RemoveRoute", Result(ok)>>)]
    /\ UNCHANGED <<procs, recs, alive, task, act, pub, autoRestarts, lsVars, stepFrame>>

DeployerNext ==
    \/ \E id \in AppIds, b \in Builds, app \in AppDetails : DeployerDeploy(id, b, app)
    \/ \E in \in BOOLEAN, ord \in KeyOrders : DeployerStep(in, ord)
    \/ \E ok \in BOOLEAN, ord \in KeyOrders : DeployerCleanup(ok, ord)

\* ------------------------------------------------------------------------
\* Deployer.Undeploy on the running supervisor
\* ------------------------------------------------------------------------
\* Deployer.Undeploy(ctx, appID) with no row of the application stored:
\* StopApp on the supervisor, RemoveRoute, RemoveDatabase and RemoveAll, each
\* error logged, and the return
DeployerUndeploy(id, outcome, okRoute, okDb, okDir) ==
    LET res == StopAppResult(id, outcome)
        oks == <<res.ret = "ok", okRoute, okDb, okDir>>
        ur == UndeployResult(id, "not_found", oks, TRUE)
    IN
    /\ und.pc = "idle"
    /\ OutcomeApplies(procs[id], outcome)
    /\ Becomes(res)
    /\ act' = [op |-> "StopApp", id |-> id, by |-> "client", ret |-> res.ret]
    /\ \E ord \in KeyOrders : DeployerProxy(DeleteEntry(routes, id), ord, okRoute)
    /\ \E ord \in KeyOrders : DeployerBackup(DeleteEntry(dbs, id), ord, okDb)
    /\ appsTbl' = ur.tbl
    /\ und' = [NoUnd EXCEPT !.pc = "returned", !.id = id, !.got2 = "not_found",
                            !.calls = ur.calls, !.ret = ur.ret]
    /\ UNCHANGED <<mgr, recAct, want, lockVars, busVars, muVars, fetchVars,
                   dcall, deps, inv, hook, ctxDone, cfgMaxRestarts, autoRestarts>>

\* a client starts an application that has not been undeployed
StartBeforeUndeploy(id, spawnOk) ==
    /\ und.pc = "idle"
    /\ StartApp(id, AppBinaryPath, spawnOk)

\* the processes, their waiters, the sweep and the restarts these call
Background ==
    \/ \E o \in Owners : RestartRead(o)
    \/ \E o \in Owners, oc \in StopOutcomes : RestartStop(o, oc)
    \/ \E o \in Owners, ok \in BOOLEAN : RestartStart(o, ok)
    \/ \E r \in Rids : ProcExit(r)
    \/ \E r \in Rids : WaiterObserve(r)
    \/ \E r \in Rids : WaiterIncr(r)
    \/ SweepCheck

\* clients start applications until one is undeployed; no client call
\* follows the undeploy
StoppedNext ==
    \/ \E id \in AppIds, ok \in BOOLEAN : StartBeforeUndeploy(id, ok)
    \/ \E id \in AppIds, oc \in StopOutcomes, okRoute, okDb, okDir \in BOOLEAN :
          DeployerUndeploy(id, oc, okRoute, okDb, okDir)
    \/ Background

\* ------------------------------------------------------------------------
\* EventBus: Subscribe, Publish, Clear
\* ------------------------------------------------------------------------
NumMains == 1
MaxSubscribes == 2
MaxPublishes == 2
MaxClears == 1
MaxGo == MaxSubscribes * MaxPublishes

\* the callers of the bus: goroutines of the program, and after them the
\* goroutines the bus starts, goroutine k of gor being caller GoId(k)
Mains == 1..NumMains
GoId(k) == NumMains + k
Callers == 1..GoId(MaxGo)

BusTypes == {"app_deployed", "app_failed"}
HandlerIds == {"h1", "h2"}
BusEvents == {Event(t, "a1") : t \in BusTypes}
BusOps == {"Subscribe", "Publish", "Clear"}
MaxCalls == [op \in BusOps |-> CASE op = "Subscribe" -> MaxSubscribes
                                 [] op = "Publish" -> MaxPublishes
                                 [] op = "Clear" -> MaxClears]

NoCall == [op |-> "-", pc |-> "idle", type |-> "-", handler |-> "-", event |-> NoEvent]
NoMu == [w |-> 0, r |-> {}]

\* NewEventBus, no call made
BusIdle ==
    /\ subscribers = <<>>
    /\ mu = NoMu
    /\ call = [c \in Callers |-> NoCall]
    /\ gor = <<>>
    /\ used = [op \in BusOps |-> 0]

Handlers_AnyType(type) ==
    IF DOMAIN subscribers = {} THEN <<>>
    ELSE subscribers[CHOOSE t \in DOMAIN subscribers :
                        \A u \in DOMAIN subscribers : Len(subscribers[u]) <= Len(subscribers[t])]

\* b.subscribers[type], nil for a type that is no key of the map
Handlers(type) == IF type \in DOMAIN subscribers THEN subscribers[type] ELSE <<>>

AwaitedHandlers_Synchronous(c) ==
    {k \in 1..Len(gor) : gor[k].by = c /\ gor[k].st # "done"}

\* the started handlers whose return Publish waits for before it returns:
\* none, each handler is started with a go statement
AwaitedHandlers(c) == {}

\* caller c enters op: the next thing it does is take b.mu
Begin(c, op, type, handler, event) ==
    /\ call[c].pc = "idle"
    /\ used[op] < MaxCalls[op]
    /\ used' = [used EXCEPT ![op] = @ + 1]
    /\ call' = [call EXCEPT ![c] = [op |-> op, pc |-> "lock", type |-> type,
                                    handler |-> handler, event |-> event]]

CallArgs(op, type, handler, event) ==
    CASE op = "Subscribe" -> type \in BusTypes /\ handler \in HandlerIds /\ event = NoEvent
      [] op = "Publish" -> event \in BusEvents /\ type = event.Type /\ handler = "-"
      [] op = "Clear" -> type = "-" /\ handler = "-" /\ event = NoEvent

\* a goroutine of the program calls the bus
MainCalls(c, op, type, handler, event) ==
    /\ c \in Mains
    /\ CallArgs(op, type, handler, event)
    /\ Begin(c, op, type, handler, event)
    /\ UNCHANGED <<supVars, recVars, pipeVars, muVars, subscribers, mu, gor>>

\* the handler run by goroutine k calls the bus
HandlerCalls(k, op, type, handler, event) ==
    /\ k \in 1..Len(gor)
    /\ gor[k].st = "running"
    /\ CallArgs(op, type, handler, event)
    /\ Begin(GoId(k), op, type, handler, event)
    /\ gor' = [gor EXCEPT ![k].st = "calling", ![k].did = op]
    /\ UNCHANGED <<supVars, recVars, pipeVars, muVars, subscribers, mu>>

\* the handler run by goroutine k returns
HandlerReturns(k) ==
    /\ k \in 1..Len(gor)
    /\ gor[k].st = "running"
    /\ gor' = [gor EXCEPT ![k].st = "done"]
    /\ UNCHANGED <<supVars, recVars, pipeVars, muVars, subscribers, mu, call, used>>

\* the handler run by goroutine k blocks for ever
HandlerHangs(k) ==
    /\ k \in 1..Len(gor)
    /\ gor[k].st = "running"
    /\ gor' = [gor EXCEPT ![k].st = "hung"]
    /\ UNCHANGED <<supVars, recVars, pipeVars, muVars, subscribers, mu, call, used>>

\* b.mu.RLock() in Publish: granted unless a writer holds or awaits the lock
RLock(c) ==
    /\ call[c].pc = "lock"
    /\ call[c].op = "Publish"
    /\ mu.w = 0
    /\ mu' = [mu EXCEPT !.r = @ \cup {c}]
    /\ call' = [call EXCEPT ![c].pc = "body"]
    /\ UNCHANGED <<supVars, recVars, pipeVars, muVars, subscribers, gor, used>>

\* b.mu.Lock() in Subscribe and Clear, first half: the writer excludes other
\* writers and new readers
Lock(c) ==
    /\ call[c].pc = "lock"
    /\ call[c].op \in {"Subscribe", "Clear"}
    /\ mu.w = 0
    /\ mu' = [mu EXCEPT !.w = c]
    /\ call' = [call EXCEPT ![c].pc = "drain"]
    /\ UNCHANGED <<supVars, recVars, pipeVars, muVars, subscribers, gor, used>>

\* b.mu.Lock(), second half: the readers have left
LockGranted(c) ==
    /\ call[c].pc = "drain"
    /\ mu.r = {}
    /\ call' = [call EXCEPT ![c].pc = "body"]
    /\ UNCHANGED <<supVars, recVars, pipeVars, muVars, subscribers, mu, gor, used>>

\* Subscribe: the append
SubscribeBody(c) ==
    /\ call[c].pc = "body"
    /\ call[c].op = "Subscribe"
    /\ subscribers' = [t \in DOMAIN subscribers \cup {call[c].type} |->
                          IF t = call[c].type
                          THEN Append(Handlers(t), call[c].handler)
                          ELSE subscribers[t]]
    /\ call' = [call EXCEPT ![c].pc = "unlock"]
    /\ UNCHANGED <<supVars, recVars, pipeVars, muVars, mu, gor, used>>

\* Publish: the loop of go statements
PublishBody(c) ==
    LET hs == Handlers(call[c].event.Type) IN
    /\ call[c].pc = "body"
    /\ call[c].op = "Publish"
    /\ gor' = gor \o [i \in 1..Len(hs) |->
                         [handler |-> hs[i], event |-> call[c].event, by |-> c,
                          st |-> "running", did |-> "-"]]
    /\ call' = [call EXCEPT ![c].pc = "unlock"]
    /\ UNCHANGED <<supVars, recVars, pipeVars, muVars, subscribers, mu, used>>

\* Clear: the new map
ClearBody(c) ==
    /\ call[c].pc = "body"
    /\ call[c].op = "Clear"
    /\ subscribers' = <<>>
    /\ call' = [call EXCEPT ![c].pc = "unlock"]
    /\ UNCHANGED <<supVars, recVars, pipeVars, muVars, mu, gor, used>>

\* the deferred RUnlock or Unlock, and the return; a handler that has made its
\* call returns with it
Return(c) ==
    /\ call[c].pc = "unlock"
    /\ AwaitedHandlers(c) = {}
    /\ mu' = IF call[c].op = "Publish" THEN [mu EXCEPT !.r = @ \ {c}]
                                       ELSE [mu EXCEPT !.w = 0]
    /\ call' = [call EXCEPT ![c] = [@ EXCEPT !.pc = "idle"]]
    /\ gor' = IF c \in Mains THEN gor ELSE [gor EXCEPT ![c - NumMains].st = "done"]
    /\ UNCHANGED <<supVars, recVars, pipeVars, muVars, subscribers, used>>

\* the steps of caller c inside the bus
BusStep(c) ==
    \/ RLock(c)
    \/ Lock(c)
    \/ LockGranted(c)
    \/ SubscribeBody(c)
    \/ PublishBody(c)
    \/ ClearBody(c)
    \/ Return(c)

BusNext ==
    \/ \E c \in Mains, op \in BusOps, type \in BusTypes \cup {"-"},
          handler \in HandlerIds \cup {"-"}, event \in BusEvents \cup {NoEvent} :
          MainCalls(c, op, type, handler, event)
    \/ \E k \in 1..MaxGo, op \in BusOps, type \in BusTypes \cup {"-"},
          handler \in HandlerIds \cup {"-"}, event \in BusEvents \cup {NoEvent} :
          HandlerCalls(k, op, type, handler, event)
    \/ \E k \in 1..MaxGo : HandlerReturns(k)
    \/ \E k \in 1..MaxGo : HandlerHangs(k)
    \/ \E c \in Callers : BusStep(c)

\* ------------------------------------------------------------------------
\* Specifications
\* ------------------------------------------------------------------------
\* the supervisor alone
Init == SupInit /\ mgr = "none" /\ RecIdle /\ PipeIdle /\ BusIdle /\ MuIdle
Next == SupNext
Spec == Init /\ [][Next]_vars

SpecPaths == Init /\ [][PathsNext]_vars

SpecStopped == Init /\ [][StoppedNext]_vars

\* the supervisor under the Go scheduler and its ticker: a waiter, a
\* RestartApp call or a sweep that can take its next step eventually takes
\* it; nothing is assumed of clients and of the managed processes
SupFairness ==
    /\ \A o \in Owners : WF_vars(RestartRead(o))
    /\ \A o \in Owners : WF_vars(\E oc \in StopOutcomes : RestartStop(o, oc))
    /\ \A o \in Owners : WF_vars(\E ok \in BOOLEAN : RestartStart(o, ok))
    /\ \A r \in Rids : WF_vars(WaiterObserve(r))
    /\ \A r \in Rids : WF_vars(WaiterIncr(r))
    /\ WF_vars(SweepCheck)
SpecFair == Spec /\ SupFairness

\* the goroutines of the supervisor contending for s.mu
MuInit == Init
SpecMu == MuInit /\ [][MuNext]_vars

\* the same under the Go scheduler: a goroutine that can leave its section
\* or finish taking the write lock eventually does (stopProcess waits at most
\* five seconds), and a goroutine that can again and again take the lock
\* eventually takes it (sync.RWMutex admits the blocked readers when a writer
\* unlocks and hands a starved writer the mutex)
SpecMuFair ==
    /\ SpecMu
    /\ \A t \in Threads : SF_vars(Acquire(t))
    /\ \A t \in Threads : WF_vars(Drained(t))
    /\ \A t \in Threads :
          WF_vars(\E ends \in BOOLEAN, starts \in SUBSET Pool : Release(t, ends, starts))

\* one reconciler, chosen at the start
RecInit ==
    /\ SupInit /\ cfgMaxRestarts = MaxRestartsCfg
    /\ mgr \in Managers
    /\ RecIdle
    /\ PipeIdle
    /\ BusIdle /\ MuIdle
SpecRec == RecInit /\ [][RecNext]_vars

\* one reconciler, its Add and Remove called by concurrent callers
SpecLock == RecInit /\ [][LockNext]_vars

\* the pipeline, with a1 registered in the record store and a2 not
PipeInit ==
    /\ SupInit /\ cfgMaxRestarts = MaxRestartsCfg
    /\ mgr = "none"
    /\ RecIdle
    /\ appsTbl = [id \in {"a1"} |-> AppRow(<<"R", "main">>)]
    /\ deps = <<>>
    /\ inv = [d \in DeployIds |-> NoInv]
    /\ hook = NoHook
    /\ und = NoUnd
    /\ FetchIdle
    /\ dcall = NoDCall
    /\ BusIdle /\ MuIdle
SpecPipe == PipeInit /\ [][PipeNext]_vars

\* webhook calls on a record store holding any of the apps, the launched
\* invocations not yet run
HookInit ==
    /\ SupInit /\ cfgMaxRestarts = MaxRestartsCfg
    /\ mgr = "none"
    /\ RecIdle
    /\ \E S \in SUBSET AppIds : appsTbl \in [S -> {AppRow(src) : src \in AppSources}]
    /\ deps = <<>>
    /\ inv = [d \in DeployIds |-> NoInv]
    /\ hook = NoHook
    /\ und = NoUnd
    /\ FetchIdle
    /\ dcall = NoDCall
    /\ BusIdle /\ MuIdle
SpecHook == HookInit /\ [][HookNext]_vars

\* undeploy calls on a record store holding any of the apps, deployed or not
UndeployInit ==
    /\ SupInit /\ cfgMaxRestarts = MaxRestartsCfg
    /\ mgr = "none"
    /\ RecIdle
    /\ \E S \in SUBSET AppIds :
          appsTbl \in [S -> {AppRow(<<"R", "main">>),
                             [AppRow(<<"R", "main">>) EXCEPT !.Status = "running",
                                                             !.LastDeploy = 1]}]
    /\ deps = <<>>
    /\ inv = [d \in DeployIds |-> NoInv]
    /\ hook = NoHook
    /\ und = NoUnd
    /\ FetchIdle
    /\ dcall = NoDCall
    /\ BusIdle /\ MuIdle
SpecUndeploy == UndeployInit /\ [][UndeployNext]_vars

\* one Deploy call, with and without database backups configured
DeployerInit ==
    /\ SupInit /\ cfgMaxRestarts = MaxRestartsCfg
    /\ mgr = "none"
    /\ RecIdle
    /\ BusIdle /\ MuIdle
    /\ appsTbl = <<>>
    /\ deps = <<>>
    /\ inv = [d \in DeployIds |-> NoInv]
    /\ hook = NoHook
    /\ und = NoUnd
    /\ FetchIdle
    /\ \E backup \in BOOLEAN : dcall = [NoDCall EXCEPT !.backup = backup]

SpecDeployer == DeployerInit /\ [][DeployerNext]_vars

\* parseRepoName on any URL
FetchInit ==
    /\ SupInit /\ cfgMaxRestarts = MaxRestartsCfg
    /\ mgr = "none"
    /\ RecIdle
    /\ BusIdle /\ MuIdle
    /\ appsTbl = <<>>
    /\ deps = <<>>
    /\ inv = [d \in DeployIds |-> NoInv]
    /\ hook = NoHook
    /\ und = NoUnd
    /\ repoURL \in Urls
    /\ parsed = NoParse
    /\ fetcher = NoFetcher
    /\ dcall = NoDCall
SpecFetch == FetchInit /\ [][FetchNext]_vars

\* DeployApp invocations at their fetch and build steps, with and without
\* CleanupOnError configured
SourceInit ==
    /\ SupInit /\ cfgMaxRestarts = MaxRestartsCfg
    /\ mgr = "none"
    /\ RecIdle
    /\ BusIdle /\ MuIdle
    /\ appsTbl = <<>>
    /\ deps = <<>>
    /\ inv = [d \in DeployIds |-> NoInv]
    /\ hook = NoHook
    /\ und = NoUnd
    /\ repoURL = <<>>
    /\ parsed = NoParse
    /\ \E c \in BOOLEAN : fetcher = [NoFetcher EXCEPT !.cleanup = c]
    /\ dcall = NoDCall
SpecSource == SourceInit /\ [][SourceNext]_vars

\* the event bus, called by goroutines of the program and by its handlers
BusInit ==
    /\ SupInit /\ cfgMaxRestarts = MaxRestartsCfg
    /\ mgr = "none"
    /\ RecIdle
    /\ PipeIdle
    /\ BusIdle /\ MuIdle
SpecBus == BusInit /\ [][BusNext]_vars

\* the same under the Go scheduler: a goroutine inside Subscribe, Publish or
\* Clear that can take its next step eventually takes it; nothing is assumed
\* of the handlers
SpecBusFair == SpecBus /\ \A c \in Callers : WF_vars(BusStep(c))

TypeOK ==
    /\ procs \in [AppIds -> 0..MaxProcs]
    /\ alive \subseteq Rids
    /\ ctxDone \in BOOLEAN
    /\ \A r \in Rids : recs[r].Status \in {"none", "running", "stopped", "crashed"}

\* ------------------------------------------------------------------------
\* Supervisor: properties
\* ------------------------------------------------------------------------
\* the map holds a record with status running for id
HasRunningRecord(id) == procs[id] # 0 /\ recs[procs[id]].Status = "running"

\* the events the last step published, as a set
Published(seq) == {seq[i] : i \in DOMAIN seq}

\* the last step completed a call of op on id
Called(a, op, id) == a.op = op /\ a.id = id

\* C1: StartApp on an id whose record is running returns the conflict error
\* and changes nothing: the map, the id's record (process handle, restart
\* counter, status) and the set of live processes are as before, no record
\* is created, no waiter is launched and no 'app started' event is published.
C1_StartOnRunningConflicts ==
    [][\A id \in AppIds :
        (Called(act', "StartApp", id) /\ HasRunningRecord(id)) =>
            /\ act'.ret = "conflict"
            /\ procs' = procs
            /\ recs'[procs[id]] = recs[procs[id]]
            /\ alive' = alive
            /\ \A r \in Rids : recs'[r].Status # "none" => recs[r].Status # "none"
            /\ \A r \in Rids : task'[r].pc = "wait" => task[r].pc = "wait"
            /\ Event("app_started", id) \notin Published(pub')]_vars

C1_Witness ==
    \E id \in AppIds :
        /\ act = [op |-> "StartApp", id |-> id, by |-> "client",
                  ret |-> "conflict"]
        /\ HasRunningRecord(id)
        /\ procs[id] \in alive

\* C2: every application id has at most one live process started by the
\* supervisor, and that process is the one held by the id's record.
C2_AtMostOneLiveProcess ==
    \A id \in AppIds :
        LET live == {r \in alive : recs[r].AppID = id} IN
        /\ Cardinality(live) <= 1
        /\ \A r \in live : procs[id] = r

\* a new process of id is live while the waiter of an earlier process of id
\* is still on its way to RestartApp
C2_Witness ==
    \E id \in AppIds, r1, r2 \in Rids :
        /\ r1 # r2
        /\ recs[r1].AppID = id /\ recs[r2].AppID = id
        /\ procs[id] = r2 /\ r2 \in alive /\ r1 \notin alive
        /\ task[r1].pc \in {"delay", "r_read", "r_stop", "r_start"}

\* C3 (as claimed): when StopApp(id) returns without error for an id that
\* has a record, the record's status is 'stopped', whatever the status and
\* the waiter's progress were at the call.
C3_StopLeavesStopped ==
    [][\A id \in AppIds :
        (Called(act', "StopApp", id) /\ act'.ret = "ok" /\ Managed(id)) =>
            GetStatus(id)' = "stopped"]_vars

\* C4 (as claimed): between two starts requested by a client, the waiters
\* restart an application at most cfg.MaxRestarts times.
C4_AtMostMaxRestarts ==
    \A id \in AppIds : autoRestarts[id] <= cfgMaxRestarts

\* the crash path of the waiter of process r, with or without the proviso
\* that the supervisor's context is not cancelled
CrashPath(proviso) ==
    \A r \in Rids :
        /\ (task[r].pc = "observe" /\ task'[r].pc # "observe"
              /\ recs[r].Status = "running" /\ (proviso => ~ctxDone)) =>
                /\ recs'[r].Status = "crashed"
                /\ pub' = <<Event("app_failed", recs[r].AppID)>>
                /\ task'[r].pc \in {"delay", "done"}
                /\ task'[r].pc = "delay" <=> recs[r].Restarts < cfgMaxRestarts
        /\ (task[r].pc = "delay" /\ task'[r].pc # "delay") =>
                /\ recs'[r].Restarts = recs[r].Restarts + 1
                /\ task'[r].pc = "r_read"
                /\ task'[r].id = recs[r].AppID
        /\ (task'[r].pc = "r_read" /\ task[r].pc # "r_read") =>
                task[r].pc = "delay"

\* C5 (as claimed): a waiter that finds its process gone while the record is
\* still running marks the record crashed, publishes exactly one 'app
\* failed' event for the id and goes on to restart (after incrementing the
\* counter) iff the counter is below cfg.MaxRestarts.
C5_CrashPathAlways == [][CrashPath(FALSE)]_vars

\* C5 (amended): the same, provided the supervisor's context has not been
\* cancelled when the waiter inspects the record.
C5_CrashPathUnlessCancelled == [][CrashPath(TRUE)]_vars

C5_Witness ==
    \E r \in Rids :
        /\ task[r].pc = "r_read" /\ task[r].by = "waiter"
        /\ recs[r].Status = "crashed" /\ recs[r].Restarts = 1
        /\ ~ctxDone

\* C6 (as claimed): while the process started for id is alive and the
\* record is running, only a stop or restart requested by a client (or the
\* shutdown of the supervisor) ends the running status.
C6_RunningUntilStopOrCrash ==
    [][\A id \in AppIds :
        ( /\ HasRunningRecord(id)
          /\ procs[id] \in alive
          /\ ~(Called(act', "StopApp", id) /\ act'.by = "client")
          /\ act'.op # "SupervisorStop"
          /\ ctxDone' = ctxDone
          /\ ~(act' = NoAct /\ procs[id] \notin alive') )
        => GetStatus(id)' = "running"]_vars

\* ------------------------------------------------------------------------
\* Reconcilers: properties
\* ------------------------------------------------------------------------
ProxyOps == {"AddRoute", "RemoveRoute"}
BackupOps == {"AddDatabase", "RemoveDatabase"}

\* the entries of a configuration file, as a set
Entries(file) == {file[i] : i \in 1..Len(file)}

\* entry e routes the domain last added for id to the port last added for id
CarriesRoute(e, id) ==
    /\ e.host = <<want[id][1]>>
    /\ e.dial = <<"http://localhost:", want[id][2]>>

\* entry e replicates the database path last added for id
CarriesDb(e, id) == e.path = want[id]

\* file has exactly one entry per id of want, each carrying what Carries asks
OneEntryPerWanted(file, Carries(_, _)) ==
    \E o \in Orders(DOMAIN want) :
        /\ Len(o) = Len(file)
        /\ \A i \in 1..Len(o) : Carries(file[i], o[i])

\* C7: after an Add or Remove call that returned success (so in particular
\* after a sequence of calls that all did), the configuration file last
\* written has exactly one entry per id that was added and not removed since,
\* carrying the domain and port (the database path) of the id's latest Add,
\* and no entry for a removed id.
C7_FileReflectsLatestAdds ==
    recAct.ret = "ok" =>
        /\ recAct.op \in ProxyOps => OneEntryPerWanted(caddyFile, CarriesRoute)
        /\ recAct.op \in BackupOps => OneEntryPerWanted(lsFile, CarriesDb)

\* Add app1, Add app2, Remove app1 has left only app2's route
C7_Witness ==
    /\ recAct = [op |-> "RemoveRoute", id |-> "a1", had |-> TRUE, ret |-> "ok"]
    /\ DOMAIN want = {"a2"}
    /\ Len(caddyFile) = 1
    /\ CarriesRoute(caddyFile[1], "a2")

\* one fixed order of the keys of a map
Canon(S) == CHOOSE o \in Orders(S) : TRUE

\* a new CaddyManager after AddRoute for the first k keys of m, in the order
\* keys, every range visiting the map in the fixed order
RECURSIVE CaddyReplay(_, _, _)
CaddyReplay(m, keys, k) ==
    IF k = 0 THEN [routes |-> <<>>, file |-> <<>>]
    ELSE LET prev == CaddyReplay(m, keys, k - 1)
             r == PutEntry(prev.routes, keys[k], m[keys[k]])
         IN [routes |-> r,
             file |-> WriteFile(prev.file, RenderRoutes(r, Canon(DOMAIN r)))]

\* the same for a new BackupManager and AddDatabase
RECURSIVE LitestreamReplay(_, _, _)
LitestreamReplay(m, keys, k) ==
    IF k = 0 THEN [dbs |-> <<>>, file |-> <<>>]
    ELSE LET prev == LitestreamReplay(m, keys, k - 1)
             r == PutEntry(prev.dbs, keys[k], m[keys[k]])
         IN [dbs |-> r,
             file |-> WriteFile(prev.file, RenderDbs(r, Canon(DOMAIN r)))]

\* the file a new manager writes when it is brought to the map m by Adds alone
CaddyReference(m) ==
    CaddyReplay(m, Canon(DOMAIN m), Cardinality(DOMAIN m)).file

LitestreamReference(m) ==
    LitestreamReplay(m, Canon(DOMAIN m), Cardinality(DOMAIN m)).file

\* C8: the file generated by an Add or Remove call has the same set of
\* entries as the file a new manager generates when it is brought to the same
\* desired-state map by Adds in one fixed order; so any two sequences of calls
\* that end with the same map generate files that are equal as sets of
\* entries.
C8_GeneratedConfigOrderIndependent ==
    recAct.ret \notin {"-", "generate_failed"} =>
        /\ recAct.op \in ProxyOps =>
               Entries(caddyFile) = Entries(CaddyReference(routes))
        /\ recAct.op \in BackupOps =>
               Entries(lsFile) = Entries(LitestreamReference(dbs))

\* a call generated two different entries in an order the reference does not
C8_Witness ==
    /\ recAct.op \in ProxyOps
    /\ recAct.ret = "ok"
    /\ Len(caddyFile) = 2
    /\ caddyFile[1] # caddyFile[2]
    /\ caddyFile # CaddyReference(routes)

\* C9: RemoveRoute and RemoveDatabase on an id the map does not hold, when
\* the configuration file can be written, return success and leave the map
\* and the configuration adopted by the external process as they were.
C9_RemoveUnknownIsNoOp ==
    [][(/\ recAct'.op \in {"RemoveRoute", "RemoveDatabase"}
        /\ ~recAct'.had
        /\ recAct'.ret # "generate_failed")
       => (/\ recAct'.ret = "ok"
           /\ routes' = routes /\ dbs' = dbs
           /\ caddyLive' = caddyLive /\ lsLive' = lsLive)]_vars

\* ------------------------------------------------------------------------
\* Pipeline: properties
\* ------------------------------------------------------------------------
\* invocation d published a "deploy failed" event with its id and an error
PublishedFailure(d) ==
    \E i \in 1..Len(inv[d].evs) :
        /\ inv[d].evs[i].Type = "app_failed"
        /\ inv[d].evs[i].deployment_id = d
        /\ inv[d].evs[i].key = "error"

\* C10: a DeployApp invocation whose pipeline timeout expired, that created
\* its Deployment row and has returned an error, has set the row's status to
\* 'failed' and published a 'deploy failed' event with the deployment id and
\* the error.
C10_FailedDeployIsDurable ==
    \A d \in DeployIds :
        (/\ inv[d].pc = "returned"
         /\ inv[d].ret = "error"
         /\ inv[d].expired
         /\ d \in DOMAIN deps)
        => (deps[d].Status = "failed" /\ PublishedFailure(d))

\* invocation d published event type for its app with its id and the commit
PublishedSuccess(d) ==
    \E i \in 2..Len(inv[d].evs) :
        inv[d].evs[i] = DeployEvent("app_deployed", inv[d].app, d,
                                    "commit", inv[d].commit)

\* C11: a DeployApp invocation that has returned no error, its pipeline
\* timeout having expired on the way, has left its Deployment row with status
\* 'success' and an end timestamp and the application row with status
\* 'running' and a new last-deploy timestamp, and has published the success
\* event with the deployment id and commit.
C11_SuccessfulDeployIsRecorded ==
    \A d \in DeployIds :
        (inv[d].pc = "returned" /\ inv[d].ret = "nil" /\ inv[d].expired)
        => /\ deps[d].Status = "success"
           /\ deps[d].Ended
           /\ appsTbl[inv[d].app].Status = "running"
           /\ appsTbl[inv[d].app].LastDeploy # 0
           /\ PublishedSuccess(d)

\* invocation d has returned the error of stage
FailedAt(d, stage) ==
    /\ inv[d].pc = "returned"
    /\ inv[d].ret = "error"
    /\ inv[d].calls # <<>>
    /\ inv[d].calls[Len(inv[d].calls)] = <<stage, "error">>

\* C12: a DeployApp invocation that failed at the build step, its pipeline
\* timeout having expired, has left its Deployment row with status 'failed',
\* a non-empty log and an end timestamp, and has not invoked the deployer.
C12_BuildFailureIsRecorded ==
    \A d \in DeployIds :
        (FailedAt(d, "build") /\ inv[d].expired)
        => /\ deps[d].Status = "failed"
           /\ deps[d].Logs # ""
           /\ deps[d].Ended
           /\ \A i \in 1..Len(inv[d].calls) : inv[d].calls[i][1] # "deploy"

StageOrder == <<"fetch", "build", "deploy">>

\* C13: within one DeployApp invocation the stages invoked are fetch, build,
\* deploy in that order, each invoked only after the one before returned
\* success; after a stage has failed no further stage is invoked and the
\* invocation returns the error.
C13_StagesSequential ==
    \A d \in DeployIds :
        LET c == inv[d].calls IN
        /\ Len(c) <= Len(StageOrder)
        /\ \A i \in 1..Len(c) : c[i][1] = StageOrder[i]
        /\ \A i \in 1..(Len(c) - 1) : c[i][2] = "ok"
        /\ (c # <<>> /\ c[Len(c)][2] = "error")
               => (inv[d].pc = "returned" /\ inv[d].ret = "error")

\* an invocation fetched, failed to build and returned the error
C13_Witness ==
    \E d \in DeployIds :
        /\ inv[d].calls = <<<<"fetch", "ok">>, <<"build", "error">>>>
        /\ FailedAt(d, "build")

\* ------------------------------------------------------------------------
\* ProcessWebhook: properties
\* ------------------------------------------------------------------------
\* the invocations the step begins
Launched == {d \in DeployIds : inv[d].pc = "idle" /\ inv'[d].pc # "idle"}

\* C14: a ProcessWebhook call for a push event that returns no error launches
\* exactly one DeployApp invocation for every registered application whose
\* repository URL and branch both equal the event's, none for any other
\* application, each with the application's id and the event's commit; a call
\* that returns an error launches none.
C14_OneDeployPerMatchingApp ==
    [][(hook'.op = "ProcessWebhook" /\ hook'.event.Type = "push")
       => IF hook'.ret = "nil"
          THEN /\ \A id \in DOMAIN appsTbl :
                    Cardinality({d \in Launched : inv'[d].app = id})
                      = IF /\ appsTbl[id].RepoURL = hook'.event.RepoURL
                           /\ appsTbl[id].Branch = hook'.event.Branch
                        THEN 1 ELSE 0
               /\ \A d \in Launched :
                    /\ inv'[d].app \in DOMAIN appsTbl
                    /\ inv'[d].commit = hook'.event.CommitSHA
          ELSE Launched = {}]_vars

\* both applications are on R/main, a third party's push for R/main with
\* commit c2 has been processed and two invocations, one per id, have begun
C14_Witness ==
    /\ hook = [op |-> "ProcessWebhook", ret |-> "nil",
               event |-> [Type |-> "push", RepoURL |-> "R", Branch |-> "main",
                          CommitSHA |-> "c2"]]
    /\ DOMAIN appsTbl = {"a1", "a2"}
    /\ \A id \in DOMAIN appsTbl : appsTbl[id].RepoURL = "R" /\ appsTbl[id].Branch = "main"
    /\ {inv[d].app : d \in DeployIds} = {"a1", "a2"}
    /\ \A d \in DeployIds : inv[d].pc = "getApp" /\ inv[d].commit = "c2"

\* C15: a ProcessWebhook call for an event whose type is not push launches
\* no DeployApp invocation.
C15_OnlyPushEventsDeploy ==
    [][(hook'.op = "ProcessWebhook" /\ hook'.event.Type # "push")
       => Launched = {}]_vars

\* ------------------------------------------------------------------------
\* UndeployApp: properties
\* ------------------------------------------------------------------------
\* the step is the return of an UndeployApp call in which GetApp answered
\* got at the start and got2 inside Undeploy
UndeployReturns(got, got2) ==
    /\ und.pc = "undeploy"
    /\ und'.pc = "returned"
    /\ und'.got = got
    /\ und'.got2 = got2

UndeployEvents(id) == <<Event("app_stopped", id), Event("app_stopped", id)>>

\* the call attempted the four sub-steps in their order
AllSubSteps(calls) ==
    /\ Len(calls) = Len(SubSteps)
    /\ \A i \in 1..Len(calls) : calls[i][1] = SubSteps[i]

\* C16: an UndeployApp call for an id that has an application row leaves the
\* row's status 'undeployed' when it returns (for an id without a row the call
\* is tolerant, see C17).
C16_UndeployAlwaysMarksRecord ==
    [][UndeployReturns("found", "found")
          => appsTbl'[und.id].Status = "undeployed"]_vars

RegisteredFor(type) == IF type \in DOMAIN subscribers THEN subscribers[type] ELSE <<>>

\* the step is the loop of go statements of caller c's Publish
Dispatches(c) ==
    /\ call[c].op = "Publish"
    /\ call[c].pc = "body"
    /\ call'[c].pc = "unlock"

\* C18: the dispatch of Publish(event) starts, after the goroutines there
\* already are, one goroutine per registration held for event.Type when
\* Publish holds the lock, in registration order, each running that
\* registration's handler with that event: a handler registered n times is
\* started n times, a handler registered for another type only is not
\* started, and with no registration for the type nothing is started.
C18_PublishDispatchesToRegistered ==
    [][\A c \in Callers : Dispatches(c) =>
          LET hs == RegisteredFor(call[c].event.Type) IN
          /\ Len(gor') = Len(gor) + Len(hs)
          /\ \A k \in 1..Len(gor) : gor'[k] = gor[k]
          /\ \A i \in 1..Len(hs) :
                /\ gor'[Len(gor) + i].handler = hs[i]
                /\ gor'[Len(gor) + i].event = call[c].event
                /\ gor'[Len(gor) + i].by = c
                /\ gor'[Len(gor) + i].st = "running"]_vars

\* h1 is registered twice for one type and h2 for the other, and a Publish of
\* the first type has started h1 twice and h2 not at all
C18_Witness ==
    /\ RegisteredFor("app_deployed") = <<"h1", "h1">>
    /\ Len(gor) = 2
    /\ \A k \in 1..2 : gor[k].handler = "h1" /\ gor[k].event = Event("app_deployed", "a1")
    /\ call[1].pc = "idle"

\* C19: every Subscribe, Publish or Clear call that has begun, by a
\* goroutine of the program or by a handler, returns, whatever the handlers
\* do and whether or not they return.
C19_BusCallsReturn ==
    \A c \in Callers : (call[c].pc # "idle") ~> (call[c].pc = "idle")

\* a Publish has returned while a handler it started is blocked for ever, and
\* another handler it started has called Subscribe or Clear and returned
C19_Witness ==
    \E k, j \in 1..Len(gor) :
        /\ gor[k].st = "hung"
        /\ call[gor[k].by].pc = "idle"
        /\ gor[j].by = gor[k].by
        /\ gor[j].did \in {"Subscribe", "Clear"}
        /\ gor[j].st = "done"

\* ------------------------------------------------------------------------
\* Reconcilers under concurrent callers: properties
\* ------------------------------------------------------------------------
\* the map a new manager holds after the first n calls of seq, one after the
\* other
RECURSIVE ReplayMap(_, _)
ReplayMap(seq, n) ==
    IF n = 0 THEN <<>>
    ELSE IF seq[n].op = "Add"
         THEN [x \in DOMAIN ReplayMap(seq, n - 1) \cup {seq[n].id} |->
                  IF x = seq[n].id THEN seq[n].val ELSE ReplayMap(seq, n - 1)[x]]
         ELSE [x \in DOMAIN ReplayMap(seq, n - 1) \ {seq[n].id} |->
                  ReplayMap(seq, n - 1)[x]]

\* the entries of the configuration generated from map m
EntriesOf(m) == Entries(Render(m, Canon(DOMAIN m)))

\* the callers between mu.Lock() and mu.Unlock()
InCritical == {c \in RecCallers : rcall[c].pc \in {"mutate", "generate", "reload", "unlock"}}

\* at most one call is between Lock and Unlock, and it is the holder of mu
Exclusive ==
    /\ Cardinality(InCritical) <= 1
    /\ \A c \in InCritical : recMu = c

\* a call that has mutated works on the map left by the calls that took the
\* lock before it, with its own mutation, and what it has generated
\* describes that map
GeneratesSerialMap ==
    \A c \in RecCallers :
        /\ rcall[c].pc \in {"generate", "reload", "unlock"}
              => TheMap = ReplayMap(serial, rcall[c].pos)
        /\ rcall[c].pc \in {"reload", "unlock"} /\ rcall[c].gen
              => Entries(TheFile) = EntriesOf(ReplayMap(serial, rcall[c].pos))

\* every call made has returned, with success
AllSucceeded ==
    /\ Quiet
    /\ serial # <<>>
    /\ \A i \in 1..Len(serial) : serial[i].ret = "ok"

\* C20 as the code has it: between Lock and Unlock there is at most one
\* Add/Remove call; each call regenerates the configuration of exactly the map
\* left by the calls that took the lock before it plus its own mutation; and
\* when all calls have returned success, the map is the result of the calls
\* in lock order, the generated file describes it, and, if the external
\* process has been started, the configuration it adopted describes it too.
C20_CallsSerialized ==
    /\ Exclusive
    /\ GeneratesSerialMap
    /\ AllSucceeded =>
          /\ TheMap = ReplayMap(serial, Len(serial))
          /\ Entries(TheFile) = EntriesOf(TheMap)
          /\ Running => Entries(TheLive) = EntriesOf(TheMap)

\* two calls, one entered while the other held the lock, have both returned
\* success with the external process running
C20_Witness ==
    /\ AllSucceeded
    /\ Running
    /\ Len(serial) = 2
    /\ \E c \in RecCallers : rcall[c].met /\ rcall[c].pos = 2
    /\ DOMAIN TheMap = AppIds
    /\ Entries(TheLive) = EntriesOf(TheMap)

\* C20 as stated: whenever all calls have returned success, the externally
\* adopted configuration is that of the final map.
C20_AdoptedEqualsFinalMap ==
    AllSucceeded => Entries(TheLive) = EntriesOf(TheMap)

\* ------------------------------------------------------------------------
\* parseRepoName: properties
\* ------------------------------------------------------------------------
\* name is the last path segment of url, a final ".git" removed
IsLastSegment(url, name) ==
    \E i \in 1..(Len(url) + 1) :
        /\ i = 1 \/ url[i - 1] = "/"
        /\ \A k \in i..Len(url) : url[k] # "/"
        /\ \/ url # <<>> /\ url[Len(url)] = ".git" /\ i <= Len(url)
              /\ name = SubSeq(url, i, Len(url) - 1)
           \/ ~(url # <<>> /\ url[Len(url)] = ".git" /\ i <= Len(url))
              /\ name = SubSeq(url, i, Len(url))

\* name is owner-repo: the last two path segments of url joined by "-", a
\* final ".git" removed
IsOwnerRepo(url, name) ==
    \E i, j \in 1..(Len(url) + 1) :
        /\ i = 1 \/ url[i - 1] = "/"
        /\ j > i /\ url[j - 1] = "/"
        /\ \A k \in i..(j - 2) : url[k] # "/"
        /\ \A k \in j..Len(url) : url[k] # "/"
        /\ \E repo \in {SubSeq(url, j, Len(url))} :
              name = SubSeq(url, i, j - 2) \o <<"-">> \o
                     (IF repo # <<>> /\ repo[Len(repo)] = ".git"
                      THEN SubSeq(repo, 1, Len(repo) - 1) ELSE repo)

\* C21: a parseRepoName call on the empty URL returns an error; on a
\* non-empty URL it returns no error and the name is owner-repo for a URL
\* that contains github.com, and the last path segment otherwise.
C21_ParseRepoName ==
    parsed.done =>
        IF repoURL = <<>> THEN parsed.err
        ELSE /\ ~parsed.err
             /\ IF \E i \in 1..Len(repoURL) : repoURL[i] = "github.com"
                THEN IsOwnerRepo(repoURL, parsed.name)
                ELSE IsLastSegment(repoURL, parsed.name)

\* ------------------------------------------------------------------------
\* Supervisor: sweep, lock, status transitions, RestartApp
\* ------------------------------------------------------------------------
\* the sweep has found id's record running with a dead process and started
\* a RestartApp for it
SweepRestarts(id) ==
    \E o \in Spare : task[o].pc = "r_read" /\ task[o].id = id /\ task[o].by = "sweep"

\* id's record is running and its process is alive
RunningAlive(id) == Managed(id) /\ recs[procs[id]].Status = "running" /\ procs[id] \in alive

\* what the claim leaves aside: a failed spawn, a call of a client, shutdown
Excused == ctxDone \/ act.ret = "start_failed" \/ act.by = "client"

RequestsWithoutHolding ==
    \A t \in Threads :
        /\ thr[t].ph \in {"idle", "wait", "want"} => t \notin smu.r /\ smu.w # t
        /\ thr[t].ph = "drain" => t \notin smu.r

\* C23: a goroutine never requests s.mu while it holds it (the restarts the
\* sweep triggers are goroutines of their own), every goroutine that
\* requests the lock gets it, and every operation begun returns.
C23_SupervisorLockLive ==
    /\ []RequestsWithoutHolding
    /\ \A t \in Threads : (thr[t].ph \in {"want", "drain"}) ~> (thr[t].ph = "held")
    /\ \A t \in Threads : (thr[t].ph \in {"want", "drain", "held"}) ~> (thr[t].ph \in {"idle", "wait"})

\* a RestartApp started by the sweep has announced its Lock for StopApp and
\* waits for the scan of a later sweep to release the read lock
C23_Witness ==
    \E t \in Pool :
        /\ thr[t].op = "RestartApp"
        /\ thr[t].k = 2
        /\ thr[t].ph = "drain"
        /\ thr[SweepThread].ph = "held"
        /\ SweepThread \in smu.r

\* the status GetStatus would report for id, "none" without a record
StatusOf(id) == IF Managed(id) THEN recs[procs[id]].Status ELSE "none"

StatusMoves ==
    {<<"none", "running">>, <<"running", "stopped">>, <<"running", "crashed">>,
     <<"crashed", "running">>, <<"stopped", "running">>}

\* the moves of one ProcessInfo, which is never set running again; "none"
\* is a ProcessInfo not allocated or no longer referenced
RecordMoves ==
    {<<"none", "running">>, <<"running", "stopped">>, <<"running", "crashed">>,
     <<"stopped", "none">>, <<"crashed", "none">>}

\* C24: the status of an id's record changes only from none to running,
\* from running to stopped or crashed, and from crashed or stopped to
\* running; no ProcessInfo goes from stopped to crashed or from crashed to
\* stopped; every record's status is running, stopped or crashed.
C24_StatusTransitions ==
    [][/\ \A id \in AppIds :
            /\ StatusOf(id)' # StatusOf(id) => <<StatusOf(id), StatusOf(id)'>> \in StatusMoves
            /\ Managed(id)' => StatusOf(id)' \in {"running", "stopped", "crashed"}
       /\ \A r \in Rids :
            recs'[r].Status # recs[r].Status
                => <<recs[r].Status, recs'[r].Status>> \in RecordMoves]_vars

\* the waiter of a crashed record has restarted the application: its id
\* went from running to crashed and back to running
C24_Witness ==
    /\ act.op = "StartApp"
    /\ act.by = "waiter"
    /\ act.ret = "ok"
    /\ StatusOf(act.id) = "running"

\* the RestartApp call of o ends in this step
RestartEnds(o) == task[o].pc \in {"r_read", "r_stop", "r_start"} /\ task'[o].pc \notin {"r_read", "r_stop", "r_start"}

\* C25: RestartApp(id) on an id with a record stops the process of the
\* record (a record not running has none) and then starts a new process from
\* the executable path of the record it looked up, seeing the same
\* environment, and when it returns success the id's record is a new one,
\* running; on an id with no record it returns the 'not managed' error,
\* changes no record and starts no process.
C25_RestartApp ==
    [][/\ \A env \in EnvArgs : Seen(RestartEnv(env)) = Seen(CmdEnv(env))
       /\ \A o \in Owners, id \in AppIds :
        task[o].id = id =>
        /\ task[o].pc = "r_read" /\ task'[o].pc = "r_stop"
              => Managed(id) /\ task'[o].path = recs[procs[id]].Path
        /\ task[o].pc = "r_read" /\ RestartEnds(o)
              => /\ ~Managed(id)
                 /\ act' = [op |-> "RestartApp", id |-> id, by |-> task[o].by, ret |-> "not_managed"]
                 /\ procs' = procs /\ alive' = alive
                 /\ \A r \in Rids : recs'[r] \in {recs[r], NoRec}
        /\ task[o].pc = "r_stop" /\ task'[o].pc = "r_start"
              => /\ procs[id] \notin alive'
                 /\ StatusOf(id)' \in {"stopped", "crashed"}
                 /\ task'[o].path = task[o].path
        /\ task[o].pc = "r_stop" /\ RestartEnds(o) => act'.ret \notin {"ok", "-"}
        /\ task[o].pc = "r_start" /\ RestartEnds(o) /\ act'.ret = "ok"
              => /\ procs'[id] # procs[id]
                 /\ procs'[id] \in alive' \ alive
                 /\ recs'[procs'[id]] = NewProcessInfo(id, task[o].path)
                 /\ StatusOf(id)' = "running"
        /\ task[o].pc = "r_start" /\ RestartEnds(o) /\ act'.ret # "ok"
              => procs' = procs /\ alive' = alive]_vars

\* a RestartApp called by the sweep or a waiter has returned success for an
\* application that had been started from the second executable
C25_Witness ==
    /\ act.op = "StartApp"
    /\ act.by \in {"sweep", "waiter"}
    /\ act.ret = "ok"
    /\ StatusOf(act.id) = "running"
    /\ recs[procs[act.id]].Path = "bin2"

\* C30: an id that has a record in s.procs keeps one: after every step
\* GetStatus(id) does not return the 'not managed' error and ListApps
\* contains id.
C30_RecordNeverRemoved ==
    [][\A id \in AppIds :
          Managed(id) => /\ Managed(id)'
                         /\ GetStatus(id)' # "not_managed"
                         /\ id \in ListApps']_vars

\* an application has been stopped by a client, as undeploy does, and its
\* record is still in the map
C30_Witness ==
    /\ act.op = "StopApp"
    /\ act.by = "client"
    /\ act.ret = "ok"
    /\ GetStatus(act.id) = "stopped"
    /\ act.id \in ListApps

\* ------------------------------------------------------------------------
\* Reconcilers: calls while the external process is not running, daemon
\* restarts
\* ------------------------------------------------------------------------
\* C27: when the proxy or the daemon is not running, never started or
\* stopped by the manager's Stop, an Add or Remove call whose file
\* generation succeeds returns success without a reload attempt: nothing is
\* posted to the proxy and no daemon is stopped or started.
C27_NotRunningNoReload ==
    [][/\ recAct'.op \in {"AddRoute", "RemoveRoute"} /\ ~caddyUp /\ recAct'.ret # "generate_failed"
            => recAct'.ret = "ok" /\ caddyLive' = caddyLive /\ ~caddyUp'
       /\ recAct'.op \in {"AddDatabase", "RemoveDatabase"} /\ ~lsUp /\ recAct'.ret # "generate_failed"
            => recAct'.ret = "ok" /\ lsStarts' = 0 /\ ~lsUp']_vars

\* the step is an AddDatabase or RemoveDatabase call made while the daemon
\* runs
DaemonCall == recAct'.op \in {"AddDatabase", "RemoveDatabase"} /\ lsUp

\* the configuration file lists exactly the databases of the map
FileOf(file, m) == \E ord \in Orders(DOMAIN m) : file = RenderDbs(m, ord)

C29_DeploymentWrittenOnce ==
    [][/\ \A d \in DOMAIN deps :
            /\ d \in DOMAIN deps'
            /\ deps'[d] # deps[d]
                 => /\ deps[d].Status = "pending"
                    /\ deps'[d].Status \in {"success", "failed"}
                    /\ inv[d].pc # "returned" /\ inv'[d].pc = "returned"
       /\ \A d \in DOMAIN deps' :
            /\ d \notin DOMAIN deps => deps'[d].Status = "pending"
            /\ deps'[d].Status \in {"pending", "success", "failed"}]_vars

\* two deployments of one application have ended, one failed and one
\* successful, each row with its own status
C29_Witness ==
    \E d1, d2 \in DOMAIN deps :
        /\ deps[d1].AppID = deps[d2].AppID
        /\ deps[d1].Status = "failed"
        /\ deps[d2].Status = "success"
        /\ inv[d1].pc = "returned"
        /\ inv[d2].pc = "returned"

\* the sub-steps of the Deploy call that failed
DeployFailed == {dcall.calls[i][1] : i \in {j \in DOMAIN dcall.calls : dcall.calls[j][2] = "error"}}

DeployMade == {dcall.calls[i][1] : i \in DOMAIN dcall.calls}

\* C26: Deploy returns an error whenever AddRoute or StartApp fails, and
\* returns nil once StartApp has succeeded, whatever became of AddDatabase,
\* of the copy of the static assets and of the final UpdateApp.
C26_DeployResult ==
    dcall.pc = "returned" =>
        /\ DeployFailed \cap {"AddRoute", "StartApp"} # {} => dcall.ret = "error"
        /\ "StartApp" \in DeployMade \ DeployFailed
              => /\ dcall.ret = "nil"
                 /\ "UpdateApp" \in DeployMade
        /\ dcall.ret = "nil" <=> DeployFailed \subseteq {"AddDatabase", "copyDir", "UpdateApp"}

\* a Deploy call has returned nil although the backup registration, the copy
\* of the static assets and the final UpdateApp all failed
C26_Witness ==
    /\ dcall.pc = "returned"
    /\ dcall.ret = "nil"
    /\ DeployFailed = {"AddDatabase", "copyDir", "UpdateApp"}

\* ------------------------------------------------------------------------
\* Supervisor: the restart counter, undeploy, restarts for an earlier process
\* ------------------------------------------------------------------------
\* the restart counter of the record s.procs holds for id
RestartsOf(id) == recs[procs[id]].Restarts

\* C31: the restart counter of an id's record never decreases: a start of
\* an id that has a record leaves the counter at the value it had.
C31_RestartCounterPersists ==
    [][\A id \in AppIds :
          Managed(id) => Managed(id)' /\ RestartsOf(id)' >= RestartsOf(id)]_vars


\* ------------------------------------------------------------------------
\* Deployer.Deploy: the route, the backup registration and the port
\* ------------------------------------------------------------------------
\* C32: after any sequence of Deploy calls, an application whose record is
\* 'running' has its route in the proxy's map; a deploy that fails at the
\* start of the process does not remove the route of a running application.
C32_RunningHasRoute ==
    dcall.pc = "returned"
        => \A id \in AppIds :
              Managed(id) /\ StatusOf(id) = "running" => id \in DOMAIN routes

\* C36: when Deploy returns an error, the backup map holds no registration
\* of the application that was not there before the call.
C36_NoBackupLeftBehind ==
    dcall.pc = "returned" /\ dcall.ret = "error" /\ ~dcall.hadDb
        => dcall.id \notin DOMAIN dbs

\* C37: in a successful Deploy the port of the route added equals the PORT
\* variable passed to StartApp.
C37_RoutePortIsEnvPort ==
    dcall.pc = "returned" /\ dcall.ret = "nil"
        => /\ routes[dcall.id].TargetURL = TargetURL(dcall.port)
           /\ dcall.env["PORT"] = Itoa(dcall.port)

\* ------------------------------------------------------------------------
\* Deployer.Undeploy and the supervisor's pending restarts
\* ------------------------------------------------------------------------
\* C33: after an undeploy of id has returned success, with no client call
\* after it, the supervisor has no running process for id: none is left and
\* none is started by a waiter's pending restart or by the sweep. Stated
\* for the undeploys whose StopApp returned no error.
C33_UndeployedStaysDown ==
    \A id \in AppIds :
        ( /\ und.pc = "returned" /\ und.ret = "nil" /\ und.id = id
          /\ und.calls[1] = <<"StopApp", "ok">> )
            => procs[id] \notin alive

\* C34: the restart a waiter makes for the process whose exit it observed
\* leaves every other process of the id alone: when the map holds a newer
\* record of the id, the waiter's StopApp and StartApp steps change neither
\* the map nor any record nor the live processes.
C34_RestartActsOnOwnProcess ==
    [][\A r \in Rids :
         ( /\ task[r].by = "waiter"
           /\ task[r].pc \in {"r_stop", "r_start"}
           /\ task'[r] # task[r]
           /\ procs[recs[r].AppID] # r )
         => UNCHANGED <<procs, recs, alive>>]_vars

\* ------------------------------------------------------------------------
\* Reconcilers: the map after a failed call
\* ------------------------------------------------------------------------
\* C35: an Add or Remove that returns an error leaves the desired-state map
\* as it was before the call: a failed Add does not retain the new entry, a
\* failed Remove leaves the entry in place.
C35_FailedCallKeepsMap ==
    [][(recAct'.op \in ProxyOps \cup BackupOps /\ recAct'.ret # "ok")
          => routes' = routes /\ dbs' = dbs]_vars

\* ------------------------------------------------------------------------
\* Pipeline: the events of a DeployApp invocation
\* ------------------------------------------------------------------------
\* the event is the one DeployApp publishes for invocation d, of this type
EventOf(e, d, type) ==
    e.Type = type /\ e.AppID = inv[d].app /\ e.deployment_id = d

\* C38: an invocation that created its deployment row publishes the
\* 'deploy started' event and then, when it returns, exactly one more event:
\* the success event iff it returns nil, the failure event otherwise; an
\* invocation whose GetApp or CreateDeployment fails publishes nothing and
\* creates no row.
C38_StartedThenOneTerminalEvent ==
    \A d \in DeployIds :
        LET i == inv[d] IN
        /\ i.pc \in {"idle", "getApp", "create"}
             => i.evs = <<>> /\ d \notin DOMAIN deps
        /\ i.pc \in Stages \cup {"updateApp", "finish"}
             => /\ d \in DOMAIN deps
                /\ Len(i.evs) = 1 /\ EventOf(i.evs[1], d, "app_deployed")
        /\ i.pc = "returned" /\ d \in DOMAIN deps
             => /\ Len(i.evs) = 2
                /\ EventOf(i.evs[1], d, "app_deployed")
                /\ i.evs[1].key = "commit"
                /\ EventOf(i.evs[2], d, IF i.ret = "nil" THEN "app_deployed"
                                                         ELSE "app_failed")
                /\ i.ret \in {"nil", "error"}
        /\ i.pc = "returned" /\ d \notin DOMAIN deps
             => i.evs = <<>> /\ i.ret = "error"

\* one invocation has returned nil and another an error, each after its row
\* was created
C38_Witness ==
    \E d1, d2 \in DeployIds :
        /\ inv[d1].pc = "returned" /\ inv[d1].ret = "nil" /\ d1 \in DOMAIN deps
        /\ Len(inv[d1].evs) = 2
        /\ inv[d2].pc = "returned" /\ inv[d2].ret = "error" /\ d2 \in DOMAIN deps
        /\ inv[d2].evs[2].Type = "app_failed"

\* ------------------------------------------------------------------------
\* GitHubFetcher: the tree a build reads
\* ------------------------------------------------------------------------
\* C39: the tree an invocation's build reads is at the commit this
\* invocation fetched, whatever other invocations do meanwhile.
C39_BuildReadsOwnCommit ==
    \A d \in DeployIds :
        fetcher.run[d].read # "-" => fetcher.run[d].read = fetcher.run[d].commit

====
